---- MODULE Spec2Model ----
(***************************************************************************)
(* A model of dcmstack's DcmMetaExtension (src/dcmstack/dcmmeta.py): the   *)
(* classified meta data store, its multiplicity rules, the simplifier, the *)
(* class promoter, get_subset and from_sequence.                           *)
(*                                                                         *)
(* Python values are modelled as records: Scalar(v) is a scalar (0 is the  *)
(* value None), List(q) is a list whose elements are Python values again.  *)
(* A function that can raise is modelled by two operators: f_err gives the *)
(* exception it raises ("" when it returns) and f gives what it returns.   *)
(* An operator that changes a store gives a record [e, exc] with the store *)
(* as it is when the call returns or raises.                               *)
(***************************************************************************)
EXTENDS Integers, Sequences, FiniteSets, TLC

(* ------------------------------ bounds -------------------------------- *)
\* Largest size of the slice axis, the time axis and the vector axis of a
\* store drawn by Init.
MaxLen == 2
\* Largest size of a spatial axis that is not the slice axis.
MaxXY == 1
\* Number of meta data keys.
NumKeys == 1
\* Largest scalar drawn for a value (the values are 1..MaxVal, and None).
MaxVal == 2
\* Largest number of stores handed to from_sequence: of three-axis stores,
\* and of stores of more axes.
MaxInputs == 3
MaxInputsND == 2
\* Value lists up to this length are drawn exhaustively.
MaxEnumLen == 2
\* The affines are the tokens 0..MaxAffine.
MaxAffine == 0
\* Smallest slice count and vector length of the five-axis stores drawn by
\* Init.
MinLen5 == 2
\* Number of axes that Init draws as the slice axis (the last ones of 0..2).
NumSliceDims == 1
\* from_sequence is called among the first MaxMergeAt calls only.
MaxMergeAt == 1
\* The axis sizes of the scenario store.
ScenarioLen == 4
\* Largest number of calls made on a store drawn by Init.
MaxCalls == 2
\* The longest value list of a store constructed on arbitrary content.
MaxRawLen == 2
\* The most extensions a header has before a wrapper is made for it.
MaxExts == 2
MaxSimplifyCalls == 6

Keys == 1 .. NumKeys

(* --------------------------- Python values ---------------------------- *)
Scalar(v) == [s |-> v]
List(q) == [l |-> q]
PyNone == Scalar(0)
\* What a dictionary holds for a key that is not in it.
Missing == [m |-> 0]
IsList(v) == DOMAIN v = {"l"}

Min(S) == CHOOSE x \in S : \A y \in S : x <= y

RECURSIVE Product(_)
Product(q) == IF q = <<>> THEN 1 ELSE Head(q) * Product(Tail(q))

\* q[a:b] on a Python list (0-based, clamped to the list).
PySlice(q, a, b) == SubSeq(q, a + 1, IF b < Len(q) THEN b ELSE Len(q))

\* q[start::step], step >= 1.
PyStride(q, start, step) ==
    LET cnt == IF start >= Len(q) THEN 0
               ELSE (Len(q) - start + step - 1) \div step
    IN  [i \in 1 .. cnt |-> q[start + (i - 1) * step + 1]]

\* The list built by "for value in q: result.extend([value] * fact)".
RepeatEach(q, fact) ==
    [i \in 1 .. (Len(q) * fact) |-> q[((i - 1) \div fact) + 1]]

(* --------------------------- classifications -------------------------- *)
GlobalConst == <<"global", "const">>
GlobalSlices == <<"global", "slices">>
TimeSamples == <<"time", "samples">>
TimeSlices == <<"time", "slices">>
VectorSamples == <<"vector", "samples">>
VectorSlices == <<"vector", "slices">>
\* The classification None (the key is in no dictionary).
NoneClass == <<"None", "None">>

classifications ==
    <<GlobalConst, GlobalSlices, TimeSamples, TimeSlices,
      VectorSamples, VectorSlices>>

ClassSet == {classifications[i] : i \in DOMAIN classifications}

InSeq(x, q) == \E i \in DOMAIN q : q[i] = x

\* slice_dim None.
NoDim == 0 - 1
\* period None.
NoPeriod == 0 - 1

(* ------------------------------- store -------------------------------- *)
\* n_slices: None (NoDim) when there is no slice dimension.
n_slices(e) ==
    IF e.slice_dim = NoDim THEN NoDim ELSE e.shape[e.slice_dim + 1]

\* slice_normal: the row of the affine of the slice dimension; None without
\* a slice dimension.  The affine is a token, so the row is the pair.
slice_normal(e) ==
    IF e.slice_dim = NoDim THEN <<NoDim, NoDim>> ELSE <<e.affine, e.slice_dim>>

\* get_valid_classes deciding the five-axis case by the vector length.
get_valid_classes_vec(e) ==
    LET n_dims == Len(e.shape) IN
    IF n_dims = 3 THEN SubSeq(classifications, 1, 2)
    ELSE IF n_dims = 4 THEN SubSeq(classifications, 1, 4)
    ELSE IF e.shape[5] # 1 THEN classifications
    ELSE SubSeq(classifications, 1, 2) \o SubSeq(classifications, 5, 6)

get_valid_classes(e) ==
    LET n_dims == Len(e.shape) IN
    IF n_dims = 3 THEN SubSeq(classifications, 1, 2)
    ELSE IF n_dims = 4 THEN SubSeq(classifications, 1, 4)
    ELSE IF e.shape[4] # 1 THEN classifications
    ELSE SubSeq(classifications, 1, 2) \o SubSeq(classifications, 5, 6)

get_multiplicity_err(e, c) ==
    IF ~InSeq(c, get_valid_classes(e)) THEN "ValueError" ELSE ""

\* get_multiplicity with the factor of (vector, slices) taken from the
\* vector axis.
get_multiplicity_vec(e, c) ==
    LET base == c[1]
        sub == c[2]
        shape == e.shape
    IN  IF sub = "slices"
        THEN IF n_slices(e) = NoDim THEN 0
             ELSE IF base = "vector" THEN n_slices(e) * shape[5]
             ELSE IF base = "global"
                  THEN n_slices(e) * Product(SubSeq(shape, 4, Len(shape)))
             ELSE n_slices(e)
        ELSE IF sub = "samples"
        THEN IF base = "time"
             THEN IF Len(shape) = 5 THEN shape[4] * shape[5] ELSE shape[4]
             ELSE IF base = "vector" THEN shape[5]
             ELSE 1
        ELSE 1

get_multiplicity(e, c) ==
    LET base == c[1]
        sub == c[2]
        shape == e.shape
    IN  IF sub = "slices"
        THEN IF n_slices(e) = NoDim THEN 0
             ELSE IF base = "vector" THEN n_slices(e) * shape[4]
             ELSE IF base = "global"
                  THEN n_slices(e) * Product(SubSeq(shape, 4, Len(shape)))
             ELSE n_slices(e)
        ELSE IF sub = "samples"
        THEN IF base = "time"
             THEN IF Len(shape) = 5 THEN shape[4] * shape[5] ELSE shape[4]
             ELSE IF base = "vector" THEN shape[5]
             ELSE 1
        ELSE 1

\* get_class_dict(c) raises KeyError when the base dictionary is missing.
get_class_dict_err(e, c) == IF c[1] \in e.bases THEN "" ELSE "KeyError"

\* The outcome of a call on store e: it returned, or raised err.
Returned(e) == [e |-> e, exc |-> ""]
Raised(e, err) == [e |-> e, exc |-> err]

\* err when it names an exception, else rest: the exception of a statement
\* that comes before the statements of rest.
ErrOr(err, rest) == IF err # "" THEN err ELSE rest

\* The outcome of a call on store e of which a first statement raises err
\* when err names an exception, and that goes on as rest if not.
Unless(err, e, rest) == IF err # "" THEN Raised(e, err) ELSE rest

\* The positions in the valid classes at which get_classification stops:
\* the key is found, or the lookup of the base dictionary raises.
ClassificationStops(e, key) ==
    LET Stops(valid) == {i \in DOMAIN valid :
                            \/ valid[i][1] \notin e.bases
                            \/ e.meta[valid[i]][key] # Missing}
    IN  Stops(get_valid_classes(e))

get_classification_err(e, key) ==
    LET StopsAt(stops, valid) ==
            IF stops = {} THEN ""
            ELSE IF valid[Min(stops)][1] \notin e.bases THEN "KeyError"
            ELSE ""
    IN  StopsAt(ClassificationStops(e, key), get_valid_classes(e))

get_classification(e, key) ==
    LET StopsAt(stops, valid) ==
            IF stops = {} THEN NoneClass ELSE valid[Min(stops)]
    IN  StopsAt(ClassificationStops(e, key), get_valid_classes(e))

get_values(e, key) ==
    LET ValueIn(c) == IF c = NoneClass THEN PyNone ELSE e.meta[c][key]
    IN  ValueIn(get_classification(e, key))

\* get_keys raises KeyError when a valid class has no base dictionary.
get_keys_err(e) ==
    LET Lookup(valid) ==
            IF \E i \in DOMAIN valid : valid[i][1] \notin e.bases
            THEN "KeyError" ELSE ""
    IN  Lookup(get_valid_classes(e))

get_keys(e) ==
    LET KeysOf(valid) ==
            {k \in Keys : \E i \in DOMAIN valid : e.meta[valid[i]][k] # Missing}
    IN  KeysOf(get_valid_classes(e))

\* A deletion that leaves the key in the dictionary.
KeepKey(e, c, key) == e

SetKey(e, c, key, val) == [e EXCEPT !.meta[c][key] = val]
DelKey(e, c, key) == [e EXCEPT !.meta[c][key] = Missing]

\* _meta_version, the version every new extension is given.
_meta_version == "0.5"

make_empty(shape, affine, slice_dim) ==
    [shape |-> shape,
     affine |-> affine,
     slice_dim |-> slice_dim,
     version |-> _meta_version,
     bases |-> {"global"}
               \cup (IF Len(shape) > 3 /\ shape[4] # 1 THEN {"time"} ELSE {})
               \cup (IF Len(shape) > 4 THEN {"vector"} ELSE {}),
     meta |-> [c \in ClassSet |-> [k \in Keys |-> Missing]]]

(* ------------------------ is_constant, is_repeating ------------------- *)
is_constant_err(v, period) ==
    IF period = NoPeriod THEN (IF IsList(v) THEN "" ELSE "TypeError")
    ELSE IF period <= 1 THEN "ValueError"
    ELSE IF ~IsList(v) THEN "TypeError"
    ELSE IF Len(v.l) % period # 0 THEN "ValueError"
    ELSE ""

is_constant(v, period) ==
    IF period = NoPeriod THEN \A i \in DOMAIN v.l : v.l[i] = v.l[1]
    ELSE \A b \in 0 .. ((Len(v.l) \div period) - 1) :
            \A i \in 1 .. period : v.l[b * period + i] = v.l[b * period + 1]

is_repeating_err(v, period) ==
    IF ~IsList(v) THEN "TypeError"
    ELSE IF period <= 1 \/ period >= Len(v.l) THEN "ValueError"
    ELSE IF Len(v.l) % period # 0 THEN "ValueError"
    ELSE ""

is_repeating(v, period) ==
    \A b \in 1 .. ((Len(v.l) \div period) - 1) :
        SubSeq(v.l, b * period + 1, b * period + period)
            = SubSeq(v.l, 1, period)

(* ------------------------------ _simplify ----------------------------- *)
\* A table that sends (time, samples) to (time, slices) in place of
\* (vector, samples).
_const_tests_level(c) ==
    CASE c = GlobalSlices -> <<GlobalConst, VectorSamples, TimeSamples>>
      [] c = VectorSlices -> <<GlobalConst, TimeSamples>>
      [] c = TimeSlices -> <<GlobalConst>>
      [] c = TimeSamples -> <<GlobalConst, TimeSlices>>
      [] c = VectorSamples -> <<GlobalConst>>

_const_tests(c) ==
    CASE c = GlobalSlices -> <<GlobalConst, VectorSamples, TimeSamples>>
      [] c = VectorSlices -> <<GlobalConst, TimeSamples>>
      [] c = TimeSlices -> <<GlobalConst>>
      [] c = TimeSamples -> <<GlobalConst, VectorSamples>>
      [] c = VectorSamples -> <<GlobalConst>>

_repeat_tests(c) ==
    CASE c = GlobalSlices -> <<TimeSlices, VectorSlices>>
      [] c = VectorSlices -> <<TimeSlices>>
      [] OTHER -> <<>>

_get_const_period_err(e, src_cls, dest_cls) ==
    IF dest_cls = GlobalConst THEN ""
    ELSE IF src_cls = GlobalSlices THEN get_multiplicity_err(e, dest_cls)
    ELSE IF src_cls = VectorSlices THEN ""
    ELSE IF src_cls = TimeSamples THEN ""
    ELSE "AssertionError"

_get_const_period(e, src_cls, dest_cls) ==
    IF dest_cls = GlobalConst THEN NoPeriod
    ELSE IF src_cls = GlobalSlices
         THEN get_multiplicity(e, src_cls) \div get_multiplicity(e, dest_cls)
    ELSE IF src_cls = VectorSlices THEN n_slices(e)
    ELSE e.shape[4]

\* What one turn of the loop over the const tests does for destination d:
\* "skip" (no base dictionary), an exception, "hit" (reclassify, break) or
\* "miss".
ConstStatus(e, values, curr_class, d) ==
    LET Test(period) ==
            ErrOr(is_constant_err(values, period),
                  IF is_constant(values, period) THEN "hit" ELSE "miss")
    IN  IF d[1] \notin e.bases THEN "skip"
        ELSE ErrOr(_get_const_period_err(e, curr_class, d),
                   Test(_get_const_period(e, curr_class, d)))

\* The same for one turn of the loop over the repeat tests.
RepeatStatus(e, values, d) ==
    LET Test(dest_mult) ==
            ErrOr(is_repeating_err(values, dest_mult),
                  IF is_repeating(values, dest_mult) THEN "hit" ELSE "miss")
    IN  IF d[1] \notin e.bases THEN "skip"
        ELSE ErrOr(get_multiplicity_err(e, d), Test(get_multiplicity(e, d)))

\* The first turn of a loop that ends it (0: the loop runs to its end).
FirstDecisive(status) ==
    LET First(I) == IF I = {} THEN 0 ELSE Min(I)
    IN  First({i \in DOMAIN status : status[i] \notin {"skip", "miss"}})

\* values[::period]
EveryPeriod(values, period) ==
    IF period = NoPeriod THEN values
    ELSE List(PyStride(values.l, 0, period))

_simplify(e, key) ==
    LET Kept(err) == [e |-> e, ret |-> FALSE, exc |-> err]
        Moved(curr_class, dest_cls, vals) ==
            [e |-> DelKey(SetKey(e, dest_cls, key, vals), curr_class, key),
             ret |-> TRUE, exc |-> ""]
        Decide(curr_class, values, dests, cst, ci, reps, rst, ri) ==
            IF ci # 0
            THEN IF cst[ci] # "hit" THEN Kept(cst[ci])
                 ELSE Moved(curr_class, dests[ci],
                            EveryPeriod(values,
                                _get_const_period(e, curr_class, dests[ci])))
            ELSE IF ri # 0
            THEN IF rst[ri] # "hit" THEN Kept(rst[ri])
                 ELSE Moved(curr_class, reps[ri],
                            List(PySlice(values.l, 0,
                                         get_multiplicity(e, reps[ri]))))
            ELSE Kept("")
        Loops(curr_class, values, dests, cst, reps, rst) ==
            Decide(curr_class, values, dests, cst, FirstDecisive(cst),
                   reps, rst, FirstDecisive(rst))
        Tests(curr_class, values, dests, reps) ==
            Loops(curr_class, values,
                  dests, [i \in DOMAIN dests |->
                             ConstStatus(e, values, curr_class, dests[i])],
                  reps, [i \in DOMAIN reps |->
                            RepeatStatus(e, values, reps[i])])
        Simplify(curr_class, values) ==
            IF get_multiplicity_err(e, curr_class) # ""
            THEN Kept(get_multiplicity_err(e, curr_class))
            ELSE IF curr_class = GlobalConst
            THEN IF values = PyNone
                 THEN [e |-> DelKey(e, curr_class, key),
                       ret |-> TRUE, exc |-> ""]
                 ELSE Kept("")
            ELSE Tests(curr_class, values,
                       _const_tests(curr_class), _repeat_tests(curr_class))
        Start(err) ==
            IF err # "" THEN Kept(err)
            ELSE Simplify(get_classification(e, key), get_values(e, key))
    IN  Start(get_classification_err(e, key))

\* The store and the exception of the outcome s of _simplify.
Outcome(s) == [e |-> s.e, exc |-> s.exc]

(* ------------------- _get_changed_class, _change_class ---------------- *)
\* A table in which (time, samples) lists no class to change to.
_preserving_changes_short(c) ==
    CASE c = NoneClass -> <<GlobalConst, VectorSamples, TimeSamples,
                            TimeSlices, VectorSlices, GlobalSlices>>
      [] c = GlobalConst -> <<VectorSamples, TimeSamples, TimeSlices,
                              VectorSlices, GlobalSlices>>
      [] c = VectorSamples -> <<TimeSamples, GlobalSlices>>
      [] c = TimeSlices -> <<VectorSlices, GlobalSlices>>
      [] c = VectorSlices -> <<GlobalSlices>>
      [] OTHER -> <<>>

_preserving_changes(c) ==
    CASE c = NoneClass -> <<GlobalConst, VectorSamples, TimeSamples,
                            TimeSlices, VectorSlices, GlobalSlices>>
      [] c = GlobalConst -> <<VectorSamples, TimeSamples, TimeSlices,
                              VectorSlices, GlobalSlices>>
      [] c = VectorSamples -> <<TimeSamples, GlobalSlices>>
      [] c = TimeSamples -> <<GlobalSlices>>
      [] c = TimeSlices -> <<VectorSlices, GlobalSlices>>
      [] c = VectorSlices -> <<GlobalSlices>>
      [] c = GlobalSlices -> <<>>

\* curr_mult and new_mult of _get_changed_class.
ChangedCurrMult(e, key) ==
    LET Mult(curr_class) ==
            IF curr_class = NoneClass THEN 1
            ELSE get_multiplicity(e, curr_class)
    IN  Mult(get_classification(e, key))

ChangedNewMult(e, new_class) ==
    IF InSeq(new_class, get_valid_classes(e))
    THEN get_multiplicity(e, new_class) ELSE 1

_get_changed_class_err(e, key, new_class) ==
    LET Check(curr_class, curr_mult) ==
            IF curr_class = new_class THEN ""
            ELSE IF ~InSeq(new_class, _preserving_changes(curr_class))
            THEN "ValueError"
            ELSE IF curr_mult = 0 THEN "ZeroDivisionError"
            ELSE IF curr_mult # 1 /\ ~IsList(get_values(e, key))
            THEN "TypeError"
            ELSE ""
    IN  ErrOr(get_classification_err(e, key),
              Check(get_classification(e, key), ChangedCurrMult(e, key)))

_get_changed_class(e, key, new_class) ==
    LET Repeated(result) ==
            IF new_class = GlobalConst THEN result[1] ELSE List(result)
        Change(curr_class, values, curr_mult, new_mult) ==
            IF curr_class = new_class THEN values
            ELSE Repeated(RepeatEach(IF curr_mult = 1 THEN <<values>>
                                     ELSE values.l,
                                     new_mult \div curr_mult))
    IN  Change(get_classification(e, key), get_values(e, key),
               ChangedCurrMult(e, key), ChangedNewMult(e, new_class))

\* A change that deletes the key from its class before it computes the
\* changed values.
_change_class_del_first(e, key, new_class) ==
    LET Deleted(curr_class) ==
            IF curr_class = NoneClass THEN e ELSE DelKey(e, curr_class, key)
        Change(curr_class) ==
            IF curr_class = new_class THEN Returned(e)
            ELSE Unless(_get_changed_class_err(e, key, new_class),
                        Deleted(curr_class),
                 Unless(get_class_dict_err(e, new_class), Deleted(curr_class),
                        Returned(SetKey(Deleted(curr_class), new_class, key,
                                 _get_changed_class(e, key, new_class)))))
    IN  Unless(get_classification_err(e, key), e,
               Change(get_classification(e, key)))

_change_class(e, key, new_class) ==
    LET Store(curr_class, set) ==
            Returned(IF curr_class # NoneClass
                     THEN DelKey(set, curr_class, key) ELSE set)
        Change(curr_class) ==
            IF curr_class = new_class THEN Returned(e)
            ELSE Unless(_get_changed_class_err(e, key, new_class), e,
                 Unless(get_class_dict_err(e, new_class), e,
                        Store(curr_class,
                              SetKey(e, new_class, key,
                                     _get_changed_class(e, key, new_class)))))
    IN  Unless(get_classification_err(e, key), e,
               Change(get_classification(e, key)))

(* ------------------------------ get_subset ---------------------------- *)
\* dict[key] = val on the dictionary of class c of store e.
Put(e, c, key, val) ==
    Unless(get_class_dict_err(e, c), e, Returned(SetKey(e, c, key, val)))

\* dict[key] = val followed by self._simplify(key).
PutSimplify(e, c, key, val) ==
    LET Simplified(put) ==
            IF put.exc # "" THEN put ELSE Outcome(_simplify(put.e, key))
    IN  Simplified(Put(e, c, key, val))

\* The first class of cands that is valid for e (NoneClass: none is).
FirstValid(e, cands) ==
    LET I == {i \in DOMAIN cands : InSeq(cands[i], get_valid_classes(e))}
    IN  IF I = {} THEN NoneClass ELSE cands[Min(I)]

\* dest_class of _copy_slice.
CopySliceDest(e, src_class) ==
    IF src_class[1] = "global"
    THEN FirstValid(e, <<TimeSamples, VectorSamples, GlobalConst>>)
    ELSE IF src_class[1] = "vector"
    THEN FirstValid(e, <<TimeSamples, GlobalConst>>)
    ELSE GlobalConst

\* A _copy_slice that takes the block of n_slices values at idx * n_slices
\* in place of every n_slices-th value from idx on.
_copy_slice_block(e, other, src_class, idx, key) ==
    LET vals == other.meta[src_class][key]
        subset_vals == PySlice(vals.l, idx * n_slices(other),
                               idx * n_slices(other) + n_slices(other))
    IN  IF ~IsList(vals) THEN [e |-> e, exc |-> "TypeError"]
        ELSE PutSimplify(e, CopySliceDest(e, src_class), key,
                         IF Len(subset_vals) = 1 THEN subset_vals[1]
                         ELSE List(subset_vals))

\* One turn of the loop over the keys of _copy_slice.
_copy_slice_key(e, other, src_class, idx, key) ==
    LET vals == other.meta[src_class][key]
        subset_vals == PyStride(vals.l, idx, n_slices(other))
    IN  IF ~IsList(vals) THEN [e |-> e, exc |-> "TypeError"]
        ELSE PutSimplify(e, CopySliceDest(e, src_class), key,
                         IF Len(subset_vals) = 1 THEN subset_vals[1]
                         ELSE List(subset_vals))

_global_slice_subset_err(e, key, sample_base, idx) ==
    IF n_slices(e) = NoDim THEN "TypeError"
    ELSE IF sample_base # "vector"
            /\ InSeq(VectorSamples, get_valid_classes(e))
    THEN "TypeError"
    ELSE IF ~IsList(e.meta[GlobalSlices][key]) THEN "TypeError"
    ELSE ""

_global_slice_subset(e, key, sample_base, idx) ==
    LET vals == e.meta[GlobalSlices][key].l
        slices_per_vec == n_slices(e) * e.shape[4]
    IN  IF sample_base = "vector"
        THEN List(PySlice(vals, idx * slices_per_vec,
                          idx * slices_per_vec + slices_per_vec))
        ELSE List(PySlice(vals, idx * n_slices(e),
                          idx * n_slices(e) + n_slices(e)))

\* What _copy_sample raises before its loops over the keys: the slice
\* range of a (vector, slices) key is computed from n_slices, which is None
\* without a slice dimension.
_copy_sample_err(e, src_class, sample_base) ==
    IF /\ src_class[2] = "slices"
       /\ src_class[1] # sample_base
       /\ src_class[1] # "global"
       /\ sample_base = "time"
       /\ n_slices(e) = NoDim
    THEN "TypeError" ELSE ""

\* One turn of the loop over the keys of _copy_sample.
_copy_sample_key(e, other, src_class, sample_base, idx, key) ==
    LET vals == other.meta[src_class][key] IN
    IF src_class[2] = "samples"
    THEN IF src_class[1] = sample_base
         THEN IF ~IsList(vals) THEN [e |-> e, exc |-> "TypeError"]
              ELSE IF idx >= Len(vals.l) THEN [e |-> e, exc |-> "IndexError"]
              ELSE Put(e, GlobalConst, key, vals.l[idx + 1])
         ELSE Put(e, src_class, key, vals)
    ELSE IF src_class[1] = sample_base
    THEN Put(e, FirstValid(e, _preserving_changes(src_class)), key, vals)
    ELSE IF src_class[1] # "global"
    THEN IF sample_base = "time"
         THEN IF n_slices(e) = NoDim \/ ~IsList(vals)
              THEN [e |-> e, exc |-> "TypeError"]
              ELSE PutSimplify(e, src_class, key,
                       List(PySlice(vals.l, idx * n_slices(e),
                                    idx * n_slices(e) + n_slices(e))))
         ELSE Put(e, src_class, key, vals)
    ELSE IF _global_slice_subset_err(other, key, sample_base, idx) # ""
    THEN [e |-> e,
          exc |-> _global_slice_subset_err(other, key, sample_base, idx)]
    ELSE PutSimplify(e, src_class, key,
                     _global_slice_subset(other, key, sample_base, idx))

\* What get_subset does with one key of the class src_class of the source.
SubsetKey(e, other, src_class, dim, idx, key) ==
    IF src_class = GlobalConst
    THEN Put(e, src_class, key, other.meta[src_class][key])
    ELSE IF dim = other.slice_dim
    THEN IF src_class[2] # "slices"
         THEN Put(e, src_class, key, other.meta[src_class][key])
         ELSE _copy_slice_key(e, other, src_class, idx, key)
    ELSE IF dim < 3
    THEN Put(e, src_class, key, other.meta[src_class][key])
    ELSE _copy_sample_key(e, other, src_class,
                          IF dim = 3 THEN "time" ELSE "vector", idx, key)

\* The loop over the keys of one class, from key k on.
RECURSIVE SubsetKeys(_, _, _, _, _, _)
SubsetKeys(r, other, src_class, dim, idx, k) ==
    IF r.exc # "" \/ k > NumKeys THEN r
    ELSE IF other.meta[src_class][k] = Missing
    THEN SubsetKeys(r, other, src_class, dim, idx, k + 1)
    ELSE SubsetKeys(SubsetKey(r.e, other, src_class, dim, idx, k),
                    other, src_class, dim, idx, k + 1)

\* The loop over the valid classes of the source, from position i on.
RECURSIVE SubsetClasses(_, _, _, _, _)
SubsetClasses(r, other, dim, idx, i) ==
    LET valid == get_valid_classes(other) IN
    IF r.exc # "" \/ i > Len(valid) THEN r
    ELSE IF get_class_dict_err(other, valid[i]) # ""
    THEN [e |-> r.e, exc |-> "KeyError"]
    ELSE IF /\ valid[i] # GlobalConst
            /\ dim >= 3
            /\ _copy_sample_err(r.e, valid[i],
                                IF dim = 3 THEN "time" ELSE "vector") # ""
    THEN [e |-> r.e, exc |-> "TypeError"]
    ELSE SubsetClasses(SubsetKeys(r, other, valid[i], dim, idx, 1),
                       other, dim, idx, i + 1)

\* result_shape of get_subset: the axis set to 1, trailing 1s dropped.
RECURSIVE TrimShape(_)
TrimShape(shape) ==
    IF Len(shape) > 3 /\ shape[Len(shape)] = 1
    THEN TrimShape(SubSeq(shape, 1, Len(shape) - 1))
    ELSE shape

SubsetShape(e, dim) == TrimShape([e.shape EXCEPT ![dim + 1] = 1])

get_subset(e, dim, idx) ==
    IF ~(0 <= dim /\ dim < 5) THEN [e |-> e, exc |-> "ValueError"]
    ELSE IF dim >= Len(e.shape) THEN [e |-> e, exc |-> "IndexError"]
    ELSE SubsetClasses(
             [e |-> make_empty(SubsetShape(e, dim), e.affine, e.slice_dim),
              exc |-> ""],
             e, dim, idx, 1)

(* ------------------------------- _insert ------------------------------ *)
\* An extend that puts the other values in front of the local ones.
ExtendInFront(e, key, local_vals, other_vals) ==
    IF ~IsList(local_vals) THEN [e |-> e, exc |-> "AttributeError"]
    ELSE IF ~IsList(other_vals) THEN [e |-> e, exc |-> "TypeError"]
    ELSE [e |-> SetKey(e, get_classification(e, key), key,
                       List(other_vals.l \o local_vals.l)),
          exc |-> ""]

\* local_vals.extend(other_vals) on the list held for key: AttributeError
\* when local_vals is no list, TypeError when other_vals is not iterable.
Extend(e, key, local_vals, other_vals) ==
    IF ~IsList(local_vals) THEN [e |-> e, exc |-> "AttributeError"]
    ELSE IF ~IsList(other_vals) THEN [e |-> e, exc |-> "TypeError"]
    ELSE [e |-> SetKey(e, get_classification(e, key), key,
                       List(local_vals.l \o other_vals.l)),
          exc |-> ""]

\* A merge that appends the other values after the local ones in place of
\* interleaving them volume by volume.
InterleaveAppended(local_vals, other_vals, loc_len, oth_len, n_blocks) ==
    local_vals \o other_vals

\* The list built by the interleaving loops of _insert_slice and
\* _insert_sample: n_blocks turns, each taking the next loc_len values of
\* local_vals and the next oth_len values of other_vals.
RECURSIVE Interleave(_, _, _, _, _)
Interleave(local_vals, other_vals, loc_len, oth_len, n_blocks) ==
    IF n_blocks = 0 THEN <<>>
    ELSE PySlice(local_vals, 0, loc_len) \o PySlice(other_vals, 0, oth_len)
         \o Interleave(PySlice(local_vals, loc_len, Len(local_vals)),
                       PySlice(other_vals, oth_len, Len(other_vals)),
                       loc_len, oth_len, n_blocks - 1)

\* The first base of (time, vector, global) the store has a dictionary for.
SliceDestBase(e) ==
    IF "time" \in e.bases THEN "time"
    ELSE IF "vector" \in e.bases THEN "vector"
    ELSE "global"

\* The part of _insert_slice and _insert_sample that moves the key to
\* (global, slices) and interleaves or appends the other values there.
\* blocks = 0: plain extend.
InsertGlobalSlices(e, key, other, loc_len, oth_len, blocks) ==
    LET Join(r, local_vals, other_vals) ==
            IF blocks = 0 THEN Extend(r, key, local_vals, other_vals)
            ELSE IF ~IsList(local_vals) \/ ~IsList(other_vals)
            THEN Raised(r, "TypeError")
            ELSE Returned(SetKey(r, GlobalSlices, key,
                                 List(Interleave(local_vals.l, other_vals.l,
                                                 loc_len, oth_len, blocks))))
        Insert(changed) ==
            IF changed.exc # "" THEN changed
            ELSE Unless(_get_changed_class_err(other, key, GlobalSlices),
                        changed.e,
                        Join(changed.e, get_values(changed.e, key),
                             _get_changed_class(other, key, GlobalSlices)))
    IN  Insert(IF get_classification(e, key) # GlobalSlices
               THEN _change_class(e, key, GlobalSlices)
               ELSE Returned(e))

\* The branch of _insert_slice and _insert_sample for a key in
\* (global, const) whose values differ: the key is moved to dest and the
\* other values are appended there.
InsertChanged(e, key, other, dest) ==
    LET Insert(changed) ==
            IF changed.exc # "" THEN changed
            ELSE Unless(_get_changed_class_err(other, key, dest), changed.e,
                        Extend(changed.e, key, get_values(changed.e, key),
                               _get_changed_class(other, key, dest)))
    IN  Insert(_change_class(e, key, dest))

_insert_slice(e, key, other) ==
    LET Insert(classes, local_vals, other_vals) ==
            IF classes = GlobalConst
            THEN IF local_vals = other_vals THEN Returned(e)
                 ELSE InsertChanged(e, key, other,
                                    <<SliceDestBase(e), "slices">>)
            ELSE IF classes = TimeSlices
            THEN Extend(e, key, local_vals, other_vals)
            ELSE IF n_slices(other) = NoDim THEN Raised(e, "TypeError")
            ELSE InsertGlobalSlices(e, key, other,
                                    n_slices(e), n_slices(other),
                                    Product(SubSeq(e.shape, 4, Len(e.shape))))
        Start(classes) ==
            Unless(_get_changed_class_err(other, key, classes), e,
                   Insert(classes, get_values(e, key),
                          _get_changed_class(other, key, classes)))
    IN  Unless(get_classification_err(e, key), e,
               Start(get_classification(e, key)))

\* An _insert_non_slice that keeps the key when the values differ.
_insert_non_slice_keep(e, key, other) ==
    Unless(get_classification_err(e, key), e, Returned(e))

_insert_non_slice(e, key, other) ==
    LET Insert(classes, local_vals, other_vals) ==
            IF local_vals # other_vals
            THEN Returned(DelKey(e, classes, key))
            ELSE Returned(e)
        Start(classes) ==
            Unless(_get_changed_class_err(other, key, classes), e,
                   Insert(classes, get_values(e, key),
                          _get_changed_class(other, key, classes)))
    IN  Unless(get_classification_err(e, key), e,
               Start(get_classification(e, key)))

_insert_sample(e, key, other, sample_base) ==
    LET \* The interleaving branch, which reads n_slices and other.shape[3]
        \* after the key has been moved to (global, slices).
        InterleaveVectors(changed) ==
            IF changed.exc # "" THEN changed
            ELSE Unless(_get_changed_class_err(other, key, GlobalSlices),
                        changed.e,
                 IF n_slices(e) = NoDim THEN Raised(changed.e, "TypeError")
                 ELSE IF Len(other.shape) < 4
                 THEN Raised(changed.e, "IndexError")
                 ELSE InsertGlobalSlices(e, key, other,
                                         n_slices(e) * e.shape[4],
                                         n_slices(e) * other.shape[4],
                                         e.shape[5]))
        Insert(classes, local_vals, other_vals) ==
            IF classes = GlobalConst
            THEN IF local_vals = other_vals THEN Returned(e)
                 ELSE InsertChanged(e, key, other, <<sample_base, "samples">>)
            ELSE IF classes = <<sample_base, "samples">>
            THEN Extend(e, key, local_vals, other_vals)
            ELSE IF sample_base = "time" /\ Len(e.shape) = 5
            THEN InterleaveVectors(IF classes # GlobalSlices
                                   THEN _change_class(e, key, GlobalSlices)
                                   ELSE Returned(e))
            ELSE InsertGlobalSlices(e, key, other, 0, 0, 0)
        Start(classes) ==
            Unless(_get_changed_class_err(other, key, classes), e,
                   Insert(classes, get_values(e, key),
                          _get_changed_class(other, key, classes)))
    IN  Unless(get_classification_err(e, key), e,
               Start(get_classification(e, key)))

\* best_dest of _insert: the first class the local class can change to that
\* has a base dictionary and that the other class can change to as well.
BestDest(e, local_classes, other_classes) ==
    LET local_allow == _preserving_changes(local_classes)
        I == {i \in DOMAIN local_allow :
                 /\ local_allow[i][1] \in e.bases
                 /\ InSeq(local_allow[i], _preserving_changes(other_classes))}
    IN  IF I = {} THEN NoneClass ELSE local_allow[Min(I)]

\* One turn of the first loop over other_keys of _insert.
ReclassifyKey(e, key, other_classes) ==
    LET local_classes == get_classification(e, key) IN
    IF get_classification_err(e, key) # ""
    THEN [e |-> e, exc |-> get_classification_err(e, key)]
    ELSE IF local_classes = other_classes THEN [e |-> e, exc |-> ""]
    ELSE IF InSeq(other_classes, _preserving_changes(local_classes))
    THEN _change_class(e, key, other_classes)
    ELSE IF ~InSeq(local_classes, _preserving_changes(other_classes))
    THEN _change_class(e, key, BestDest(e, local_classes, other_classes))
    ELSE [e |-> e, exc |-> ""]

\* One turn of the second loop over other_keys of _insert.
InsertKey(e, dim, key, other) ==
    IF dim = e.slice_dim THEN _insert_slice(e, key, other)
    ELSE IF dim < 3 THEN _insert_non_slice(e, key, other)
    ELSE IF dim = 3 \/ dim = 4
    THEN _insert_sample(e, key, other, IF dim = 3 THEN "time" ELSE "vector")
    ELSE Returned(e)

\* The keys of the class alone, without the keys the other store lacks.
OtherKeysPresent(other, other_classes, missing_keys) ==
    {k \in Keys : other.meta[other_classes][k] # Missing}

\* other_keys of _insert for one class of the other store: the keys of the
\* class, then (for global const) the missing keys.
OtherKeys(other, other_classes, missing_keys) ==
    {k \in Keys : other.meta[other_classes][k] # Missing}
    \cup (IF other_classes = GlobalConst THEN missing_keys ELSE {})

\* The two loops over other_keys, each from key k on (phase 1: reclassify,
\* phase 2: insert).
RECURSIVE InsertKeys(_, _, _, _, _, _, _)
InsertKeys(r, dim, other, other_classes, keys, phase, k) ==
    IF r.exc # "" THEN r
    ELSE IF k > NumKeys
    THEN IF phase = 1
         THEN InsertKeys(r, dim, other, other_classes, keys, 2, 1)
         ELSE r
    ELSE IF k \notin keys
    THEN InsertKeys(r, dim, other, other_classes, keys, phase, k + 1)
    ELSE InsertKeys(IF phase = 1 THEN ReclassifyKey(r.e, k, other_classes)
                    ELSE InsertKey(r.e, dim, k, other),
                    dim, other, other_classes, keys, phase, k + 1)

\* The loop over the valid classes of the other store, from position i on.
RECURSIVE InsertClasses(_, _, _, _, _, _)
InsertClasses(r, dim, other, use_slices, missing_keys, i) ==
    LET valid == get_valid_classes(other) IN
    IF r.exc # "" \/ i > Len(valid) THEN r
    ELSE IF valid[i][2] = "slices" /\ ~use_slices
    THEN InsertClasses(r, dim, other, use_slices, missing_keys, i + 1)
    ELSE InsertClasses(
             InsertKeys(r, dim, other, valid[i],
                        OtherKeys(other, valid[i], missing_keys), 1, 1),
             dim, other, use_slices, missing_keys, i + 1)

\* np.allclose on the two slice normals: raises when one of them is None.
allclose_err(a, b) ==
    IF a = <<NoDim, NoDim>> \/ b = <<NoDim, NoDim>> THEN "TypeError" ELSE ""

_insert(e, dim, other) ==
    IF allclose_err(slice_normal(other), slice_normal(e)) # ""
    THEN [e |-> e, exc |-> "TypeError"]
    ELSE IF get_keys_err(e) # "" \/ get_keys_err(other) # ""
    THEN [e |-> e, exc |-> "KeyError"]
    ELSE InsertClasses([e |-> e, exc |-> ""], dim, other,
                       slice_normal(other) = slice_normal(e),
                       get_keys(e) \ get_keys(other), 1)

(* ----------------------------- from_sequence -------------------------- *)
\* output_shape: the first input's shape, padded with 1s up to dim, with
\* the entry at dim set to the number of inputs.
RECURSIVE PadShape(_, _)
PadShape(shape, dim) ==
    IF Len(shape) <= dim THEN PadShape(Append(shape, 1), dim) ELSE shape

OutputShape(first_input, dim, n_inputs) ==
    [PadShape(first_input.shape, dim) EXCEPT ![dim + 1] = n_inputs]

\* The result initialised with the first input: the dictionaries of the
\* first input's valid classes are copied (the slices ones only when the
\* slice normals agree), and the shape is set back to 1 along dim.
SeedResult(first_input, dim, n_inputs) ==
    LET made == make_empty(OutputShape(first_input, dim, n_inputs),
                           first_input.affine, first_input.slice_dim)
        use_slices == slice_normal(made) = slice_normal(first_input)
        valid == get_valid_classes(first_input)
        copied == {valid[i] : i \in {j \in DOMAIN valid :
                                 valid[j][2] # "slices" \/ use_slices}}
    IN  [made EXCEPT
           !.meta = [c \in ClassSet |->
                        IF c \in copied THEN first_input.meta[c] ELSE @[c]],
           !.shape = [@ EXCEPT ![dim + 1] = 1]]

SeedResult_err(first_input, dim, n_inputs) ==
    LET made == make_empty(OutputShape(first_input, dim, n_inputs),
                           first_input.affine, first_input.slice_dim)
        valid == get_valid_classes(first_input)
    IN  IF allclose_err(slice_normal(made), slice_normal(first_input)) # ""
        THEN "TypeError"
        ELSE IF \E i \in DOMAIN valid :
                   \/ valid[i][1] \notin first_input.bases
                   \/ valid[i][1] \notin made.bases
        THEN "KeyError"
        ELSE ""

\* The loop over seq[1:], from input i on (i is the position in seq);
\* upto is the last input consumed.
RECURSIVE InsertInputs(_, _, _, _, _)
InsertInputs(r, seq, dim, i, upto) ==
    LET Grown(ins) ==
            IF ins.exc # "" THEN ins
            ELSE Returned([ins.e EXCEPT !.shape[dim + 1] = @ + 1])
    IN  IF r.exc # "" \/ i > upto THEN r
        ELSE InsertInputs(Grown(_insert(r.e, dim, seq[i])),
                          seq, dim, i + 1, upto)

\* The loop that simplifies the keys in (global, slices), from key k on;
\* keys are the keys in (global, slices) when the loop starts.
RECURSIVE SimplifyKeys(_, _, _)
SimplifyKeys(r, keys, k) ==
    IF r.exc # "" \/ k > NumKeys THEN r
    ELSE IF k \notin keys THEN SimplifyKeys(r, keys, k + 1)
    ELSE SimplifyKeys(Outcome(_simplify(r.e, k)), keys, k + 1)

from_sequence_args_err(seq, dim) ==
    IF ~(0 <= dim /\ dim < 5) THEN "ValueError"
    ELSE IF Len(seq[1].shape) > dim /\ seq[1].shape[dim + 1] # 1
    THEN "ValueError"
    ELSE SeedResult_err(seq[1], dim, Len(seq))

\* The working result of from_sequence after the first n inputs have been
\* consumed (before the final simplification).
MergeState(seq, dim, n) ==
    Unless(from_sequence_args_err(seq, dim), seq[1],
           InsertInputs(Returned(SeedResult(seq[1], dim, Len(seq))),
                        seq, dim, 2, n))

\* A merge that does not store the shape after the last insertion.
from_sequence_stale_shape(seq, dim) ==
    LET Simplified(merged) ==
            IF merged.exc # "" THEN merged
            ELSE SimplifyKeys(merged,
                     {k \in Keys : merged.e.meta[GlobalSlices][k] # Missing},
                     1)
        Stale(r) ==
            IF r.exc # "" \/ Len(seq) < 2 THEN r
            ELSE Returned([r.e EXCEPT !.shape[dim + 1] = @ - 1])
    IN  Stale(Simplified(MergeState(seq, dim, Len(seq))))

from_sequence(seq, dim) ==
    LET Simplified(merged) ==
            IF merged.exc # "" THEN merged
            ELSE SimplifyKeys(merged,
                     {k \in Keys : merged.e.meta[GlobalSlices][k] # Missing},
                     1)
    IN  Simplified(MergeState(seq, dim, Len(seq)))

\* A check that accepts any number of values.
ValueCountAny(val, cls_mult) == ""

(* ------------------------------ check_valid --------------------------- *)
\* What the multiplicity check of check_valid raises on one value: len()
\* raises TypeError on a value that is no list.
ValueCountErr(val, cls_mult) ==
    IF ~IsList(val) THEN "TypeError"
    ELSE IF Len(val.l) # cls_mult THEN "InvalidExtensionError"
    ELSE ""

\* What the loop body of check_valid raises for one valid class.
ClassCheckErr(e, c) ==
    LET cls_mult == get_multiplicity(e, c)
        held == {k \in Keys : e.meta[c][k] # Missing}
        wrong == {k \in held : ValueCountErr(e.meta[c][k], cls_mult) # ""}
    IN  IF c[1] \notin e.bases THEN "InvalidExtensionError"
        ELSE IF cls_mult = 0 /\ held # {} THEN "InvalidExtensionError"
        ELSE IF cls_mult > 1 /\ wrong # {}
        THEN ValueCountErr(e.meta[c][Min(wrong)], cls_mult)
        ELSE ""

\* "" when check_valid returns, else the exception it raises.
check_valid_err(e) ==
    LET valid == get_valid_classes(e)
        failing == {i \in DOMAIN valid : ClassCheckErr(e, valid[i]) # ""}
    IN  IF ~(e.slice_dim = NoDim \/ (0 <= e.slice_dim /\ e.slice_dim < 3))
        THEN "InvalidExtensionError"
        ELSE IF ~(3 <= Len(e.shape) /\ Len(e.shape) < 6)
        THEN "InvalidExtensionError"
        ELSE IF failing # {}
        THEN ClassCheckErr(e, valid[Min(failing)])
        ELSE IF \E i, j \in DOMAIN valid :
                   /\ i # j
                   /\ \E k \in Keys : /\ e.meta[valid[i]][k] # Missing
                                      /\ e.meta[valid[j]][k] # Missing
        THEN "InvalidExtensionError"
        ELSE ""

(* --------------------- to_json, from_json, __eq__ --------------------- *)
\* JSON values, as json.dumps writes them and json.loads reads them.
JNull == [j |-> "null"]
JNumber(n) == [j |-> "number", n |-> n]
JArray(items) == [j |-> "array", items |-> items]

\* json.dumps on a value of the meta data: None is written as null, a
\* number as a number and a list as an array of its encoded elements.
\* An encoder that writes scalars only: a list is written as null.
json_dumps_scalar(v) ==
    IF IsList(v) \/ v = PyNone THEN JNull ELSE JNumber(v.s)

RECURSIVE json_dumps(_)
json_dumps(v) ==
    IF IsList(v) THEN JArray([i \in DOMAIN v.l |-> json_dumps(v.l[i])])
    ELSE IF v = PyNone THEN JNull
    ELSE JNumber(v.s)

\* json.loads on a JSON value: null is read as None, a number as a number
\* and an array as the list of its decoded elements.
RECURSIVE json_loads(_)
json_loads(j) ==
    IF j.j = "array" THEN List([i \in DOMAIN j.items |-> json_loads(j.items[i])])
    ELSE IF j.j = "null" THEN PyNone
    ELSE Scalar(j.n)

\* The keys of _content that are not base classifications.
HeaderKeys ==
    {"dcmmeta_affine", "dcmmeta_slice_dim", "dcmmeta_shape", "dcmmeta_version"}

\* The sub classifications of a base classification.
SubsOf(base) == {c[2] : c \in {d \in ClassSet : d[1] = base}}

\* _mangle(self._content): the JSON object of the extension.  Its members
\* are the header keys and the base classifications the extension has; a
\* base classification is an object of its sub classifications, each an
\* object of the keys it holds.
_mangle(e) ==
    [name \in HeaderKeys \cup e.bases |->
        CASE name = "dcmmeta_affine" -> JNumber(e.affine)
          [] name = "dcmmeta_slice_dim" ->
                IF e.slice_dim = NoDim THEN JNull ELSE JNumber(e.slice_dim)
          [] name = "dcmmeta_shape" ->
                JArray([i \in DOMAIN e.shape |-> JNumber(e.shape[i])])
          [] name = "dcmmeta_version" -> JNumber(e.version)
          [] OTHER ->
                [sub \in SubsOf(name) |->
                    [k \in {kk \in Keys : e.meta[<<name, sub>>][kk] # Missing}
                        |-> json_dumps(e.meta[<<name, sub>>][k])]]]

\* str(extension)
__str__(e) == _mangle(e)

\* The extension constructed on a JSON string: _unmangle reads the object
\* back into _content.
_unmangle(json_str) ==
    [shape |-> [i \in DOMAIN json_str["dcmmeta_shape"].items |->
                   json_str["dcmmeta_shape"].items[i].n],
     affine |-> json_str["dcmmeta_affine"].n,
     slice_dim |-> IF json_str["dcmmeta_slice_dim"] = JNull THEN NoDim
                   ELSE json_str["dcmmeta_slice_dim"].n,
     version |-> json_str["dcmmeta_version"].n,
     bases |-> (DOMAIN json_str) \ HeaderKeys,
     meta |-> [c \in ClassSet |-> [k \in Keys |->
                  IF /\ c[1] \in DOMAIN json_str
                     /\ k \in DOMAIN json_str[c[1]][c[2]]
                  THEN json_loads(json_str[c[1]][c[2]][k])
                  ELSE Missing]]]

to_json_err(e) == check_valid_err(e)
to_json(e) == _mangle(e)

from_json_err(json_str) == check_valid_err(_unmangle(json_str))
from_json(json_str) == _unmangle(json_str)

\* The header values __eq__ compares first.
SameHeader(e, other) ==
    /\ e.affine = other.affine
    /\ e.shape = other.shape
    /\ e.slice_dim = other.slice_dim
    /\ e.version = other.version

\* The valid classes of self at which the loop of __eq__ stops: a
\* dictionary that is missing from one of the two, or two that differ.
EqStops(e, other, valid) ==
    {i \in DOMAIN valid :
        \/ valid[i][1] \notin e.bases
        \/ valid[i][1] \notin other.bases
        \/ e.meta[valid[i]] # other.meta[valid[i]]}

__eq___err(e, other) ==
    LET At(valid, stops) ==
            IF stops = {} THEN ""
            ELSE IF \/ valid[Min(stops)][1] \notin e.bases
                    \/ valid[Min(stops)][1] \notin other.bases
                 THEN "KeyError" ELSE ""
    IN  IF ~SameHeader(e, other) THEN ""
        ELSE At(get_valid_classes(e), EqStops(e, other, get_valid_classes(e)))

__eq__(e, other) ==
    /\ SameHeader(e, other)
    /\ EqStops(e, other, get_valid_classes(e)) = {}

(* --------------------------- the state machine ------------------------ *)
VARIABLES
    ext,    \* the store the caller holds
    pre,    \* the store the last call was made on
    op,     \* the last call and its arguments
    exc,    \* the exception the last call raised, "" when it returned
    ret,    \* what the last call returned, when it returns a value
    merge,  \* the inputs and the axis of the from_sequence call that
            \* returned ext, or that returned the store that the last
            \* call, a get_subset along the same axis, was made on; where
            \* the inputs are followed, also what they are now and who
            \* holds each dictionary of ext
    calls,  \* the number of calls made so far
    hdr,    \* the header of the image a NiftiWrapper is made for: its
            \* extensions, the shape of the image and its slice dimension
    meta_ext \* the position in hdr.extensions of the extension the
            \* wrapper refers to, 0 for None

vars == <<ext, pre, op, exc, ret, merge, calls, hdr, meta_ext>>

\* No image.
NoHeader == [extensions |-> <<>>, shape |-> <<>>, slice_dim |-> NoDim]

NoMerge == [seq |-> <<>>, dim |-> 0]
Call(name, key, cls, dim, idx) ==
    [name |-> name, key |-> key, cls |-> cls, dim |-> dim, idx |-> idx]

\* The value lists of length n that Init draws: every list over 1..MaxVal
\* when n <= MaxEnumLen, else the constant lists, the list of distinct
\* values, a list that changes at its end, and for every proper divisor q
\* of n the list that repeats with period q and the list that is constant
\* over each block of q.
PatternLists(n) ==
    {[i \in 1 .. n |-> Scalar(v)] : v \in 1 .. MaxVal}
    \cup {[i \in 1 .. n |-> Scalar(i)],
          [i \in 1 .. n |-> Scalar(IF i = n THEN 2 ELSE 1)]}
    \cup {[i \in 1 .. n |-> Scalar(((i - 1) % q) + 1)] :
             q \in {d \in 2 .. (n - 1) : n % d = 0}}
    \cup {[i \in 1 .. n |-> Scalar(((i - 1) \div q) + 1)] :
             q \in {d \in 2 .. (n - 1) : n % d = 0}}

ValueLists(n) ==
    IF n <= MaxEnumLen
    THEN {[i \in 1 .. n |-> Scalar(f[i])] : f \in [1 .. n -> 1 .. MaxVal]}
    ELSE PatternLists(n)

\* The ways a caller can enter one key into an empty store: not at all,
\* or into the dictionary of a valid class with as many values as the
\* multiplicity of the class.
KeyEntries(e) ==
    {<<NoneClass, Missing>>}
    \cup {<<GlobalConst, Scalar(v)>> : v \in 0 .. MaxVal}
    \cup UNION {{<<c, List(q)>> : q \in ValueLists(get_multiplicity(e, c))} :
                  c \in {d \in ClassSet \ {GlobalConst} :
                            /\ InSeq(d, get_valid_classes(e))
                            /\ d[1] \in e.bases
                            /\ get_multiplicity(e, d) > 0}}

Populate(e, entries) ==
    [e EXCEPT !.meta = [c \in ClassSet |-> [k \in Keys |->
                           IF entries[k][1] = c THEN entries[k][2]
                           ELSE Missing]]]

\* The stores of one shape.
StoresOf(shape, affine, slice_dim) ==
    {Populate(make_empty(shape, affine, slice_dim), entries) :
        entries \in [Keys -> KeyEntries(make_empty(shape, affine, slice_dim))]}

AxisSizes(a, slice_dim) ==
    IF a < 3 /\ a # slice_dim THEN 1 .. MaxXY ELSE 1 .. MaxLen

Shapes(slice_dim) ==
    UNION {{s \in [1 .. n -> 1 .. (IF MaxLen > MaxXY THEN MaxLen ELSE MaxXY)] :
               \A a \in 0 .. (n - 1) : s[a + 1] \in AxisSizes(a, slice_dim)} :
           n \in 3 .. 5}

SliceDims == {NoDim} \cup {2 - i : i \in 0 .. (NumSliceDims - 1)}

\* The shape of the scenario "shape [x, y, 4, 4], slice axis 2".
ScenarioShape == <<1, 1, ScenarioLen, ScenarioLen>>

\* The shapes Init draws for a slice dimension: of the five-axis shapes,
\* those whose slice count and vector length are at least MinLen5.
InitShapes(slice_dim) ==
    {s \in Shapes(slice_dim) :
        Len(s) = 5 =>
           /\ s[5] >= MinLen5
           /\ slice_dim # NoDim => s[slice_dim + 1] >= MinLen5}

\* The shape, affine and slice dimension of the stores Init draws.
InitArgs ==
    {<<s, a, d>> \in
        (UNION {InitShapes(dd) : dd \in SliceDims})
        \X (0 .. MaxAffine) \X SliceDims : s \in InitShapes(d)}
    \cup {<<ScenarioShape, 0, 2>>}

Init ==
    /\ \E x \in InitArgs : ext \in StoresOf(x[1], x[2], x[3])
    /\ pre = ext
    /\ op = Call("init", 0, NoneClass, 0, 0)
    /\ hdr = NoHeader
    /\ meta_ext = 0
    /\ exc = ""
    /\ ret = FALSE
    /\ merge = NoMerge
    /\ calls = 0

DoSimplify(key) ==
    /\ calls < MaxCalls
    /\ \E r \in {_simplify(ext, key)} :
      /\ calls' = calls + 1
      /\ pre' = ext
      /\ ext' = r.e
      /\ exc' = r.exc
      /\ ret' = r.ret
      /\ op' = Call("_simplify", key, NoneClass, 0, 0)
      /\ UNCHANGED <<hdr, meta_ext>>
      /\ merge' = NoMerge

DoChangeClass(key, new_class) ==
    /\ calls < MaxCalls
    /\ \E r \in {_change_class(ext, key, new_class)} :
      /\ calls' = calls + 1
      /\ pre' = ext
      /\ ext' = r.e
      /\ exc' = r.exc
      /\ ret' = FALSE
      /\ op' = Call("_change_class", key, new_class, 0, 0)
      /\ UNCHANGED <<hdr, meta_ext>>
      /\ merge' = NoMerge

\* get_subset returns a new store; the caller goes on with it.
DoGetSubset(dim, idx) ==
    /\ calls < MaxCalls
    /\ \E r \in {get_subset(ext, dim, idx)} :
      /\ calls' = calls + 1
      /\ pre' = ext
      /\ ext' = IF r.exc = "" THEN r.e ELSE ext
      /\ exc' = r.exc
      /\ ret' = FALSE
      /\ op' = Call("get_subset", 0, NoneClass, dim, idx)
      /\ UNCHANGED <<hdr, meta_ext>>
      /\ merge' = IF op.name = "from_sequence" /\ exc = "" /\ merge.dim = dim
                  THEN merge ELSE NoMerge

\* The stores a caller merges with the store it holds: stores of the same
\* shape and slice dimension.
MergeInputs(e) ==
    UNION {StoresOf(e.shape, a, e.slice_dim) : a \in 0 .. MaxAffine}

\* The longest sequence merged: the scenario stores are merged alone.
MergeLimit(e) ==
    IF \E a \in 1 .. Len(e.shape) : e.shape[a] > MaxLen THEN 1
    ELSE IF Len(e.shape) = 3 THEN MaxInputs ELSE MaxInputsND

\* The numbers of further stores merged with the store held.
MergeLens == IF calls < MaxMergeAt THEN 0 .. (MergeLimit(ext) - 1) ELSE {}

\* from_sequence returns a new store; the caller goes on with it.
DoFromSequence(dim, others) ==
    /\ calls < MaxMergeAt
    /\ \E r \in {from_sequence(<<ext>> \o others, dim)} :
      /\ calls' = calls + 1
      /\ pre' = ext
      /\ ext' = IF r.exc = "" THEN r.e ELSE ext
      /\ exc' = r.exc
      /\ ret' = FALSE
      /\ op' = Call("from_sequence", 0, NoneClass, dim, 0)
      /\ UNCHANGED <<hdr, meta_ext>>
      /\ merge' = IF r.exc = ""
                  THEN [seq |-> <<ext>> \o others, dim |-> dim] ELSE NoMerge

Next ==
    \/ \E key \in Keys : DoSimplify(key)
    \/ \E key \in Keys, new_class \in ClassSet : DoChangeClass(key, new_class)
    \/ \E dim \in 0 .. 5, idx \in 0 .. MaxLen : DoGetSubset(dim, idx)
    \/ \E dim \in 0 .. 5, n \in MergeLens :
          \E others \in [1 .. n -> MergeInputs(ext)] :
             DoFromSequence(dim, others)

Spec == Init /\ [][Next]_vars

(* ------------------- queries on the stores make_empty gives ----------- *)
AllSliceDims == {NoDim, 0, 1, 2}

\* The empty stores of every shape of 3 to 5 axes and every slice dimension.
EmptyStores ==
    {make_empty(sd[1], 0, sd[2]) :
        sd \in {x \in (UNION {Shapes(d) : d \in AllSliceDims}) \X AllSliceDims :
                   x[1] \in Shapes(x[2])}}

QueryInit ==
    /\ ext \in EmptyStores
    /\ pre = ext
    /\ op = Call("init", 0, NoneClass, 0, 0)
    /\ hdr = NoHeader
    /\ meta_ext = 0
    /\ exc = ""
    /\ ret = FALSE
    /\ merge = NoMerge
    /\ calls = 0

DoGetMultiplicity(classification) ==
    /\ calls < MaxCalls
    /\ calls' = calls + 1
    /\ pre' = ext
    /\ ext' = ext
    /\ exc' = get_multiplicity_err(ext, classification)
    /\ ret' = IF get_multiplicity_err(ext, classification) = ""
              THEN get_multiplicity(ext, classification) ELSE FALSE
    /\ op' = Call("get_multiplicity", 0, classification, 0, 0)
    /\ UNCHANGED <<hdr, meta_ext>>
    /\ merge' = NoMerge

DoGetValidClasses ==
    /\ calls < MaxCalls
    /\ calls' = calls + 1
    /\ pre' = ext
    /\ ext' = ext
    /\ exc' = ""
    /\ ret' = get_valid_classes(ext)
    /\ op' = Call("get_valid_classes", 0, NoneClass, 0, 0)
    /\ UNCHANGED <<hdr, meta_ext>>
    /\ merge' = NoMerge

QueryNext ==
    \/ \E classification \in ClassSet : DoGetMultiplicity(classification)
    \/ DoGetValidClasses

QuerySpec == QueryInit /\ [][QueryNext]_vars

(* ------------------ the serialisation state machine ------------------- *)
\* to_json on the extension: ret is the JSON string it returns.
DoToJson ==
    /\ \E err \in {to_json_err(ext)} :
          /\ exc' = err
          /\ ret' = IF err = "" THEN to_json(ext) ELSE FALSE
    /\ pre' = ext
    /\ op' = Call("to_json", 0, NoneClass, 0, 0)
    /\ UNCHANGED <<hdr, meta_ext>>
    /\ UNCHANGED <<ext, merge, calls>>

\* from_json on the string the last to_json returned, or on the string of
\* the extension (str) when it is not at hand.
DoFromJson ==
    /\ \E json_str \in {IF op.name = "to_json" /\ exc = ""
                         THEN ret ELSE __str__(ext)} :
          /\ exc' = from_json_err(json_str)
          /\ ext' = IF from_json_err(json_str) = ""
                    THEN from_json(json_str) ELSE ext
    /\ pre' = ext
    /\ ret' = FALSE
    /\ op' = Call("from_json", 0, NoneClass, 0, 0)
    /\ UNCHANGED <<hdr, meta_ext>>
    /\ UNCHANGED <<merge, calls>>

JsonNext ==
    \/ DoToJson
    \/ DoFromJson
    \/ \E key \in Keys : DoSimplify(key)
    \/ \E key \in Keys, new_class \in ClassSet : DoChangeClass(key, new_class)
    \/ \E dim \in 0 .. 5, idx \in 0 .. MaxLen : DoGetSubset(dim, idx)

JsonSpec == Init /\ [][JsonNext]_vars

(* -------------------- the validation state machine -------------------- *)
\* The values a constructed extension may hold: a scalar, or a list of any
\* length up to MaxRawLen.
RawValues ==
    {Scalar(1)} \cup {List([i \in 1 .. n |-> Scalar(1)]) : n \in 0 .. MaxRawLen}

\* DcmMetaExtension(dcm_meta_ecode, json_str): the constructor stores the
\* content it is given without checking it.  Here the content of e with
\* the keys given v1 under c1 and v2 under c2, where e has the dictionary.
RawStore(e, c1, v1, c2, v2) ==
    [e EXCEPT !.meta = [c \in ClassSet |-> [k \in Keys |->
        IF c[1] \notin e.bases THEN Missing
        ELSE IF c = c1 THEN v1
        ELSE IF c = c2 THEN v2
        ELSE Missing]]]

CheckInit ==
    /\ \E e \in EmptyStores, c1 \in ClassSet, c2 \in ClassSet :
         \E v1 \in RawValues \cup {Missing}, v2 \in RawValues \cup {Missing} :
            ext = RawStore(e, c1, v1, c2, v2)
    /\ pre = ext
    /\ op = Call("init", 0, NoneClass, 0, 0)
    /\ hdr = NoHeader
    /\ meta_ext = 0
    /\ exc = ""
    /\ ret = FALSE
    /\ merge = NoMerge
    /\ calls = 0

\* check_valid on the extension: it assigns nothing.
DoCheckValid ==
    /\ exc' = check_valid_err(ext)
    /\ pre' = ext
    /\ ext' = ext
    /\ ret' = FALSE
    /\ op' = Call("check_valid", 0, NoneClass, 0, 0)
    /\ UNCHANGED <<hdr, meta_ext>>
    /\ UNCHANGED <<merge, calls>>

CheckNext == DoCheckValid

CheckSpec == CheckInit /\ [][CheckNext]_vars

(* --------------- merging stores of different shapes ------------------- *)
\* from_sequence takes any sequence of stores.  The stores a caller merges
\* with the store it holds, along dim: stores of its shape, and stores of
\* its shape with another size along dim (the axis added when it has none).
MixedShapes(e, dim) ==
    {e.shape}
    \cup (IF dim < 5
          THEN {[PadShape(e.shape, dim) EXCEPT ![dim + 1] = n] :
                   n \in 2 .. MaxLen}
          ELSE {})

MixedInputs(e, dim) ==
    UNION {StoresOf(shape, 0, e.slice_dim) : shape \in MixedShapes(e, dim)}

MixedNext ==
    \E dim \in 0 .. 5 : \E other \in MixedInputs(ext, dim) :
        DoFromSequence(dim, <<other>>)

MixedSpec == Init /\ [][MixedNext]_vars

(* --------------- merges along the time and vector axes ---------------- *)
\* The stores of the shape of e that hold every key in (global, const) or
\* not at all.
SampleInputs(e) ==
    {s \in StoresOf(e.shape, e.affine, e.slice_dim) :
        \A k \in Keys : \A c \in ClassSet \ {GlobalConst} :
            s.meta[c][k] = Missing}

\* from_sequence along the time or the vector axis; the inputs are kept
\* whether the merge completes or raises.
DoMergeSamples(dim, others) ==
    /\ calls < MaxMergeAt
    /\ \E r \in {from_sequence(<<ext>> \o others, dim)} :
      /\ calls' = calls + 1
      /\ pre' = ext
      /\ ext' = IF r.exc = "" THEN r.e ELSE ext
      /\ exc' = r.exc
      /\ ret' = FALSE
      /\ op' = Call("from_sequence", 0, NoneClass, dim, 0)
      /\ UNCHANGED <<hdr, meta_ext>>
      /\ merge' = [seq |-> <<ext>> \o others, dim |-> dim]

SampleNext ==
    \E dim \in 3 .. 4, n \in 1 .. (MergeLimit(ext) - 1) :
        \E others \in [1 .. n -> SampleInputs(ext)] :
            DoMergeSamples(dim, others)

SampleSpec == Init /\ [][SampleNext]_vars

(* ------------------------ repeated simplification --------------------- *)
\* _simplify called again on the store the last call left.
DoSimplifyAgain(key) ==
    /\ calls < MaxSimplifyCalls
    /\ \E r \in {_simplify(ext, key)} :
      /\ calls' = calls + 1
      /\ pre' = ext
      /\ ext' = r.e
      /\ exc' = r.exc
      /\ ret' = r.ret
      /\ op' = Call("_simplify", key, NoneClass, 0, 0)
      /\ UNCHANGED <<hdr, meta_ext>>
      /\ merge' = NoMerge

SimplifyNext == \E key \in Keys : DoSimplifyAgain(key)

SimplifySpec == Init /\ [][SimplifyNext]_vars

(* ------------------ the stores the caller still holds ----------------- *)
\* Objects are told apart by who holds them: 0 is an object only the store
\* being built holds, i > 0 one that input i holds as well.  The object a
\* statement stores without copying is the one it was given.
same_object(owner) == owner

\* deepcopy(x) returns a new object.
deepcopy(owner) == 0

\* The dictionary objects of the result of from_sequence: make_empty
\* creates them, and the dictionaries of the first input's valid classes
\* are replaced by deepcopy of the first input's (the slices ones only
\* when the slice normals agree).
SeedOwners(first_input, dim, n_inputs) ==
    LET Owners(made, valid) ==
            [c \in ClassSet |->
                IF /\ InSeq(c, valid)
                   /\ \/ c[2] # "slices"
                      \/ slice_normal(made) = slice_normal(first_input)
                THEN deepcopy(1) ELSE 0]
    IN  Owners(make_empty(OutputShape(first_input, dim, n_inputs),
                          first_input.affine, first_input.slice_dim),
               get_valid_classes(first_input))

\* The dictionary objects of the result of get_subset: make_empty creates
\* them, and every value is stored into them as a deepcopy.
SubsetOwners == [c \in ClassSet |-> deepcopy(1)]

\* The inputs as they are once store e has been written: a dictionary
\* object two stores hold has the same content in both.
Mirror(inputs, owner, e) ==
    [i \in DOMAIN inputs |->
        [inputs[i] EXCEPT !.meta = [c \in ClassSet |->
            IF owner[c] = i THEN e.meta[c] ELSE @[c]]]]

\* from_sequence, with the inputs the caller passed (seq) and what they
\* are afterwards (now).
HeldFromSequence(dim, others) ==
    /\ calls < MaxMergeAt
    /\ \E r \in {from_sequence(<<ext>> \o others, dim)} :
      /\ calls' = calls + 1
      /\ pre' = ext
      /\ ext' = IF r.exc = "" THEN r.e ELSE ext
      /\ exc' = r.exc
      /\ ret' = FALSE
      /\ op' = Call("from_sequence", 0, NoneClass, dim, 0)
      /\ UNCHANGED <<hdr, meta_ext>>
      /\ merge' = [seq |-> <<ext>> \o others, dim |-> dim,
                   owner |-> SeedOwners(ext, dim, 1 + Len(others)),
                   now |-> Mirror(<<ext>> \o others,
                                  SeedOwners(ext, dim, 1 + Len(others)), r.e)]

\* get_subset, with the store it was called on (seq) and what that store
\* is afterwards (now).
HeldGetSubset(dim, idx) ==
    /\ calls < MaxCalls
    /\ \E r \in {get_subset(ext, dim, idx)} :
      /\ calls' = calls + 1
      /\ pre' = ext
      /\ ext' = IF r.exc = "" THEN r.e ELSE ext
      /\ exc' = r.exc
      /\ ret' = FALSE
      /\ op' = Call("get_subset", 0, NoneClass, dim, idx)
      /\ UNCHANGED <<hdr, meta_ext>>
      /\ merge' = [seq |-> <<ext>>, dim |-> dim, owner |-> SubsetOwners,
                   now |-> Mirror(<<ext>>, SubsetOwners, r.e)]

\* _simplify and _change_class on the store returned: they write its
\* dictionaries.
HeldSimplify(key) ==
    /\ calls < MaxCalls
    /\ op.name \in {"from_sequence", "get_subset"} /\ exc = ""
    /\ \E r \in {_simplify(ext, key)} :
      /\ calls' = calls + 1
      /\ pre' = ext
      /\ ext' = r.e
      /\ exc' = r.exc
      /\ ret' = r.ret
      /\ op' = Call("_simplify", key, NoneClass, 0, 0)
      /\ UNCHANGED <<hdr, meta_ext>>
      /\ merge' = [merge EXCEPT !.now = Mirror(@, merge.owner, r.e)]

HeldChangeClass(key, new_class) ==
    /\ calls < MaxCalls
    /\ op.name \in {"from_sequence", "get_subset"} /\ exc = ""
    /\ \E r \in {_change_class(ext, key, new_class)} :
      /\ calls' = calls + 1
      /\ pre' = ext
      /\ ext' = r.e
      /\ exc' = r.exc
      /\ ret' = FALSE
      /\ op' = Call("_change_class", key, new_class, 0, 0)
      /\ UNCHANGED <<hdr, meta_ext>>
      /\ merge' = [merge EXCEPT !.now = Mirror(@, merge.owner, r.e)]

HeldNext ==
    \/ \E dim \in 0 .. 5, n \in MergeLens :
          \E others \in [1 .. n -> MergeInputs(ext)] :
             HeldFromSequence(dim, others)
    \/ \E dim \in 0 .. 5, idx \in 0 .. MaxLen : HeldGetSubset(dim, idx)
    \/ \E key \in Keys : HeldSimplify(key)
    \/ \E key \in Keys, new_class \in ClassSet : HeldChangeClass(key, new_class)

HeldSpec == Init /\ [][HeldNext]_vars

(* ----------------------------- NiftiWrapper --------------------------- *)
\* The extension code of a DcmMetaExtension.
dcm_meta_ecode == 0

\* The extensions a header may come with for an image of the shape and
\* slice dimension of store e: a DcmMetaExtension constructed on some
\* content, or an extension of another kind.
Extensions(e) ==
    {[code |-> dcm_meta_ecode,
      content |-> RawStore(e, GlobalConst, v1, GlobalSlices, v2)] :
        v1 \in {Missing, Scalar(1)}, v2 \in RawValues \cup {Missing}}
    \cup {[code |-> dcm_meta_ecode + 1, content |-> e]}

WrapInit ==
    /\ \E e \in EmptyStores, n \in 0 .. MaxExts :
         \E exts \in [1 .. n -> Extensions(e)] :
            hdr = [extensions |-> exts, shape |-> e.shape,
                   slice_dim |-> e.slice_dim]
    /\ meta_ext = 0
    /\ ext = PyNone
    /\ pre = PyNone
    /\ op = Call("init", 0, NoneClass, 0, 0)
    /\ exc = ""
    /\ ret = FALSE
    /\ merge = NoMerge
    /\ calls = 0

\* The loop of __init__ over hdr.extensions from position i on, found
\* being self.meta_ext so far: an extension with the dcmmeta code whose
\* check_valid raises InvalidExtensionError is passed over, one whose
\* check_valid returns becomes self.meta_ext, and a second one raises.
RECURSIVE FindMetaExt(_, _, _)
FindMetaExt(extensions, i, found) ==
    LET Candidate(err) ==
            IF err = "InvalidExtensionError"
            THEN FindMetaExt(extensions, i + 1, found)
            ELSE IF err # "" THEN [meta_ext |-> found, exc |-> err]
            ELSE IF found # 0 THEN [meta_ext |-> found, exc |-> "ValueError"]
            ELSE FindMetaExt(extensions, i + 1, i)
    IN  IF i > Len(extensions) THEN [meta_ext |-> found, exc |-> ""]
        ELSE IF extensions[i].code # dcm_meta_ecode
        THEN FindMetaExt(extensions, i + 1, found)
        ELSE Candidate(check_valid_err(extensions[i].content))

\* NiftiWrapper(nii_img, make_empty): when no extension was found, an
\* empty one is made for the shape and slice dimension of the image and
\* appended to the extensions, or MissingExtensionError is raised; then
\* check_valid is called on self.meta_ext.  idx of the call is 1 when
\* make_empty is true.
DoWrap(empty) ==
    /\ calls < MaxCalls
    /\ calls' = calls + 1
    /\ \E f \in {FindMetaExt(hdr.extensions, 1, 0)} :
         \E new \in {[code |-> dcm_meta_ecode,
                      content |-> make_empty(hdr.shape, 0, hdr.slice_dim)]} :
            IF f.exc # ""
            THEN /\ exc' = f.exc /\ meta_ext' = 0 /\ hdr' = hdr
            ELSE IF f.meta_ext # 0
            THEN /\ exc' = check_valid_err(hdr.extensions[f.meta_ext].content)
                 /\ meta_ext' = f.meta_ext
                 /\ hdr' = hdr
            ELSE IF ~empty
            THEN /\ exc' = "MissingExtensionError"
                 /\ meta_ext' = 0
                 /\ hdr' = hdr
            ELSE /\ hdr' = [hdr EXCEPT !.extensions = Append(@, new)]
                 /\ exc' = check_valid_err(new.content)
                 /\ meta_ext' = IF check_valid_err(new.content) = ""
                                 THEN Len(hdr.extensions) + 1 ELSE 0
    /\ pre' = ext
    /\ ext' = IF meta_ext' = 0 THEN PyNone
              ELSE hdr'.extensions[meta_ext'].content
    /\ ret' = FALSE
    /\ op' = Call("NiftiWrapper", 0, NoneClass, 0, IF empty THEN 1 ELSE 0)
    /\ merge' = NoMerge

WrapNext == \E empty \in BOOLEAN : DoWrap(empty)

WrapSpec == WrapInit /\ [][WrapNext]_vars

(* ------------------------------- claims ------------------------------- *)
\* The size of axis a of a shape, an absent axis counting as 1.
AxisLen(shape, a) == IF Len(shape) > a THEN shape[a + 1] ELSE 1

\* The multiplicity table of the specification, for a store with S slices.
TableMultiplicity(e, c) ==
    LET S == n_slices(e)
        t == AxisLen(e.shape, 3)
        v == AxisLen(e.shape, 4)
    IN  IF c[2] = "slices" /\ e.slice_dim = NoDim THEN 0
        ELSE IF c = GlobalConst THEN 1
        ELSE IF c = GlobalSlices THEN S * t * v
        ELSE IF c = TimeSamples THEN (IF Len(e.shape) = 5 THEN t * v ELSE t)
        ELSE IF c = TimeSlices THEN S
        ELSE IF c = VectorSamples THEN v
        ELSE S * t

\* C8: for every shape of 3 to 5 axes, every slice axis and every
\* classification valid for the shape, get_multiplicity returns the entry
\* of the multiplicity table: 1 for (global,const), S*t*v for
\* (global,slices), t*v (5 axes) or t (4 axes) for (time,samples), S for
\* (time,slices), v for (vector,samples), S*t for (vector,slices), and 0
\* for a slices classification when the slice axis is absent.
C8_MultiplicityTable ==
    (op.name = "get_multiplicity" /\ exc = "")
        => ret = TableMultiplicity(pre, op.cls)

C8_Witness ==
    /\ op.name = "get_multiplicity"
    /\ exc = ""
    /\ op.cls = VectorSlices
    /\ pre.slice_dim = 1
    /\ pre.shape[4] # pre.shape[5]
    /\ ret = pre.shape[2] * pre.shape[4]

\* The classifications as a set.
SeqSet(q) == {q[i] : i \in DOMAIN q}

\* The valid classifications of a shape when the five-axis case is decided
\* by the size of axis a.
ValidByAxis(shape, a) ==
    IF Len(shape) = 3 THEN {GlobalConst, GlobalSlices}
    ELSE IF Len(shape) = 4
    THEN {GlobalConst, GlobalSlices, TimeSamples, TimeSlices}
    ELSE IF shape[a + 1] = 1
    THEN {GlobalConst, GlobalSlices, VectorSamples, VectorSlices}
    ELSE ClassSet

\* C9 as stated: get_valid_classes returns the two global classifications
\* for 3 axes, those and the two time classifications for 4 axes, the
\* global and vector classifications for 5 axes with vector length
\* (shape[4]) 1, and all six for 5 axes with vector length above 1.
C9_ByVectorLength ==
    op.name = "get_valid_classes" => SeqSet(ret) = ValidByAxis(pre.shape, 4)

\* C9 amended: as C9, with the five-axis case decided by the time length
\* (shape[3]): the global and vector classifications when it is 1, all six
\* when it is above 1.
C9_ByTimeLength ==
    op.name = "get_valid_classes" => SeqSet(ret) = ValidByAxis(pre.shape, 3)

C9_Witness ==
    /\ op.name = "get_valid_classes"
    /\ Len(pre.shape) = 5
    /\ pre.shape[4] = 1
    /\ pre.shape[5] > 1
    /\ SeqSet(ret) = {GlobalConst, GlobalSlices, VectorSamples, VectorSlices}

\* C10, in the case the claim names: after a call to _simplify(key) on a
\* valid store has deleted a (global,const) key holding None and returned
\* True, a second call to _simplify(key) returns False without raising and
\* leaves the store unchanged.
C10_AfterDeletingNone ==
    [][(/\ op.name = "_simplify"
        /\ exc = ""
        /\ ret = TRUE
        /\ check_valid_err(pre) = ""
        /\ pre.meta[GlobalConst][op.key] = PyNone
        /\ op'.name = "_simplify"
        /\ op'.key = op.key)
          => (exc' = "" /\ ret' = FALSE /\ ext' = ext)]_vars

\* The inputs of the last from_sequence call are valid stores.
MergeInputsValid ==
    \A i \in DOMAIN merge.seq : check_valid_err(merge.seq[i]) = ""

\* C3 as stated: for every non-empty sequence of valid stores whose size
\* along dim is 1 or absent, the store from_sequence returns passes
\* check_valid.
C3_MergeResultValid ==
    (op.name = "from_sequence" /\ exc = "" /\ MergeInputsValid)
        => check_valid_err(ext) = ""

\* C4 as stated: for every valid store, every axis that exists in its
\* shape and every in-range index, the store get_subset returns passes
\* check_valid.
C4_SubsetResultValid ==
    (/\ op.name = "get_subset"
     /\ exc = ""
     /\ check_valid_err(pre) = ""
     /\ op.dim < Len(pre.shape)
     /\ op.idx < pre.shape[op.dim + 1])
        => check_valid_err(ext) = ""

\* C2, for the merges along the time axis and the vector axis: for valid
\* inputs I_0..I_{n-1} merged with from_sequence along the axis a into M,
\* every i in 0..n-1 and every key, get_subset(M, a, i).get_values(key)
\* equals I_i.get_values(key).
C2_MergeSplitRoundTrip ==
    (/\ op.name = "get_subset"
     /\ exc = ""
     /\ merge # NoMerge
     /\ merge.dim \in {3, 4}
     /\ op.dim = merge.dim
     /\ MergeInputsValid
     /\ op.idx < Len(merge.seq))
        => \A key \in Keys :
              get_values(ext, key) = get_values(merge.seq[op.idx + 1], key)

\* The last call was get_subset(slice axis, idx), it returned, and it was
\* made on a valid store of n_axes axes with n_slices slices that holds
\* key in (global,slices).
SlicedOut(n_axes, slices, idx, key) ==
    /\ op.name = "get_subset"
    /\ exc = ""
    /\ check_valid_err(pre) = ""
    /\ Len(pre.shape) = n_axes
    /\ pre.slice_dim # NoDim
    /\ n_slices(pre) = slices
    /\ op.dim = pre.slice_dim
    /\ op.idx = idx
    /\ pre.meta[GlobalSlices][key] # Missing

MergedThreeAxis(dim) ==
    /\ op.name = "from_sequence"
    /\ exc = ""
    /\ merge.dim = dim
    /\ Len(merge.seq) >= 2
    /\ MergeInputsValid
    /\ \A i \in DOMAIN merge.seq :
          /\ Len(merge.seq[i].shape) = 3
          /\ merge.seq[i].slice_dim # NoDim
          /\ slice_normal(merge.seq[i]) = slice_normal(merge.seq[1])

\* C5: merging n >= 2 three-axis stores (slice axis set, same orientation)
\* along axis 3, for a key held in (global,const) by every input: the
\* result shape is [x,y,z,n]; if all inputs hold the same value the key
\* ends in (global,const) with that scalar value; otherwise it ends in
\* (time,samples) with exactly n values whose i-th entry is input i's
\* value, wherever in the sequence the first differing value occurs.
C5_ConstAlongTime ==
    \A key \in Keys :
       (/\ MergedThreeAxis(3)
        /\ \A i \in DOMAIN merge.seq :
              merge.seq[i].meta[GlobalConst][key] # Missing)
          => /\ ext.shape = Append(merge.seq[1].shape, Len(merge.seq))
             /\ IF \A i \in DOMAIN merge.seq :
                      merge.seq[i].meta[GlobalConst][key] =
                         merge.seq[1].meta[GlobalConst][key]
                THEN /\ get_classification(ext, key) = GlobalConst
                     /\ ext.meta[GlobalConst][key] =
                           merge.seq[1].meta[GlobalConst][key]
                ELSE /\ get_classification(ext, key) = TimeSamples
                     /\ ext.meta[TimeSamples][key] =
                           List([i \in DOMAIN merge.seq |->
                                    merge.seq[i].meta[GlobalConst][key]])

\* Three inputs whose first two values agree and whose third differs.
C5_Witness ==
    /\ MergedThreeAxis(3)
    /\ Len(merge.seq) = 3
    /\ merge.seq[1].meta[GlobalConst][1] = Scalar(1)
    /\ merge.seq[2].meta[GlobalConst][1] = Scalar(1)
    /\ merge.seq[3].meta[GlobalConst][1] = Scalar(2)
    /\ ext.shape[4] = 3
    /\ ext.meta[TimeSamples][1] = List(<<Scalar(1), Scalar(1), Scalar(2)>>)

\* The value a three-axis store holds for key at each slice: the value of
\* a (global,const) key at every slice, the values of a (global,slices)
\* key, and None at every slice for a key the store does not hold.
PerSlice(e, key) ==
    IF e.meta[GlobalSlices][key] # Missing
    THEN e.meta[GlobalSlices][key].l
    ELSE IF e.meta[GlobalConst][key] # Missing
    THEN [i \in 1 .. n_slices(e) |-> e.meta[GlobalConst][key]]
    ELSE [i \in 1 .. n_slices(e) |-> PyNone]

\* The last call merged three-axis stores along a spatial axis that is not
\* the slice axis.
MergedNonSlice ==
    /\ \E dim \in 0 .. 2 : MergedThreeAxis(dim)
    /\ merge.dim # merge.seq[1].slice_dim

\* No input holds None for key.
NoInputHoldsNone(key) ==
    \A i \in DOMAIN merge.seq :
       /\ merge.seq[i].meta[GlobalConst][key] # PyNone
       /\ merge.seq[i].meta[GlobalSlices][key] # Missing
             => \A j \in DOMAIN merge.seq[i].meta[GlobalSlices][key].l :
                   merge.seq[i].meta[GlobalSlices][key].l[j] # PyNone

\* Some input differs for key from the result of merging the inputs
\* before it.
DiffersFromResultSoFar(key) ==
    \E n \in 1 .. (Len(merge.seq) - 1) :
       PerSlice(MergeState(merge.seq, merge.dim, n).e, key)
          # PerSlice(merge.seq[n + 1], key)

\* Every input holds key in the same classification with the same value.
SameInAllInputs(key) ==
    /\ get_classification(merge.seq[1], key) # NoneClass
    /\ \A i \in DOMAIN merge.seq : \A c \in ClassSet :
          merge.seq[i].meta[c][key] = merge.seq[1].meta[c][key]

\* A key whose value differs between the result so far and any input is
\* absent from the final result, however many further inputs carry it with
\* a non-missing value.
DifferingKeyDropped ==
    \A key \in Keys :
       (MergedNonSlice /\ NoInputHoldsNone(key)
                       /\ DiffersFromResultSoFar(key))
          => get_classification(ext, key) = NoneClass

\* The first input as its key is left by the simplification that ends
\* from_sequence, which is tried on the keys in (global,slices).
FinallySimplified(e, key) ==
    IF e.meta[GlobalSlices][key] # Missing THEN _simplify(e, key).e ELSE e

HoldingClasses(e, key) ==
    {c \in SeqSet(get_valid_classes(e)) : e.meta[c][key] # Missing}

\* Every key of e is in exactly one dictionary of the valid classifications.
UniquelyClassified(e) ==
    \A key \in Keys : Cardinality(HoldingClasses(e, key)) <= 1

\* C1: starting from any valid store, after any sequence of _simplify,
\* _change_class, get_subset and from_sequence calls that complete without
\* error, every key of every resulting store appears in exactly one
\* classification dictionary among the classifications valid for that
\* store's shape: the stores Init draws are so, and every call that
\* returns on such a store gives such a store.
C1_UniquelyClassified ==
    /\ UniquelyClassified(ext)
    /\ [][(UniquelyClassified(ext) /\ exc' = "")
             => UniquelyClassified(ext')]_vars

\* The second of two calls returned and moved key 1 from one
\* classification to another, where it is in exactly one dictionary.
C1_Witness ==
    /\ calls = 2
    /\ exc = ""
    /\ op.name \in {"_simplify", "_change_class", "get_subset"}
    /\ get_classification(pre, 1) # get_classification(ext, 1)
    /\ get_classification(ext, 1) # NoneClass
    /\ get_classification(pre, 1) # NoneClass
    /\ Cardinality(HoldingClasses(ext, 1)) = 1

(* ------------------------------- C11 ---------------------------------- *)
\* C11: from_json on the string that to_json returned for an extension
\* returns an extension equal (__eq__, both ways round) to it; and to_json
\* and from_json raise InvalidExtensionError for an extension that fails
\* check_valid, and only for such a one.
C11_RoundTripStep ==
    (op.name = "to_json" /\ exc = "" /\ op'.name = "from_json")
        => /\ exc' = ""
           /\ __eq___err(ext', ext) = "" /\ __eq__(ext', ext)
           /\ __eq___err(ext, ext') = "" /\ __eq__(ext, ext')

C11_RaisesWhenInvalid ==
    op.name \in {"to_json", "from_json"}
        => /\ (check_valid_err(pre) # "") = (exc # "")
           /\ exc \in {"", "InvalidExtensionError"}

C11_WitnessInvalid == op.name = "to_json" /\ exc = "InvalidExtensionError"

(* ------------------------------- C12 ---------------------------------- *)
\* The valid classes other than (global, const) in which some key holds a
\* list whose length is not the multiplicity of the class.
WrongLengthClasses(e) ==
    {c \in ClassSet \ {<<"global", "const">>} :
        /\ InSeq(c, get_valid_classes(e))
        /\ \E k \in Keys : /\ IsList(e.meta[c][k])
                            /\ Len(e.meta[c][k].l) # get_multiplicity(e, c)}

\* A value that has no length is held in a class of multiplicity above 1.
UnsizedValueHeld(e) ==
    \E c \in ClassSet, k \in Keys :
        /\ InSeq(c, get_valid_classes(e))
        /\ get_multiplicity(e, c) > 1
        /\ e.meta[c][k] # Missing /\ ~IsList(e.meta[c][k])

WithSingleValues(e) ==
    [e EXCEPT !.meta = [c \in ClassSet |-> [k \in Keys |->
        IF /\ InSeq(c, get_valid_classes(e))
           /\ IsList(e.meta[c][k])
           /\ get_multiplicity(e, c) = 1
        THEN List(<<Scalar(1)>>)
        ELSE e.meta[c][k]]]]

\* C12 (amended): check_valid raises whenever some key of a non-const class
\* of multiplicity above 1 holds a list of another length, and what it
\* raises is InvalidExtensionError unless a value without a length is held;
\* the length of a list held in a class of multiplicity 1 is not looked
\* at: the outcome is that for the store with lists of one value there;
\* check_valid leaves the store as it was.
C12_WrongLengthState ==
    op.name = "check_valid" =>
        /\ ext = pre
        /\ (\E c \in WrongLengthClasses(ext) : get_multiplicity(ext, c) > 1)
              => /\ exc # ""
                 /\ ~UnsizedValueHeld(ext) => exc = "InvalidExtensionError"
        /\ exc = check_valid_err(WithSingleValues(ext))

C13_LossyChangeRefused ==
    (op.name = "_change_class" /\ get_classification_err(pre, op.key) = "")
        => /\ (/\ get_classification(pre, op.key) # op.cls
               /\ ~InSeq(op.cls,
                         _preserving_changes(get_classification(pre, op.key))))
                 => (exc # "" /\ ext = pre)
           /\ get_classification(pre, op.key) = op.cls
                 => (exc = "" /\ ext = pre)

\* A change of a classified key to a class that is not a target of its own
\* has been refused.
C13_Witness ==
    /\ op.name = "_change_class" /\ exc = "ValueError"
    /\ get_classification_err(pre, op.key) = ""
    /\ get_classification(pre, op.key) \notin {NoneClass, op.cls}
    /\ op.cls[1] \in pre.bases

\* A change of a key to the class it is in has returned.
C13_WitnessSame ==
    /\ op.name = "_change_class" /\ exc = ""
    /\ get_classification_err(pre, op.key) = ""
    /\ get_classification(pre, op.key) = op.cls

(* ------------------------------- C14 ---------------------------------- *)
\* The store is as make_empty returned it: it holds no key.
IsEmptyStore(e) == \A c \in ClassSet, k \in Keys : e.meta[c][k] = Missing

\* C14: the store make_empty returns for a shape of 3 to 5 axes and a
\* slice_dim of None, 0, 1 or 2 passes check_valid: it has a dictionary
\* for just the classes get_valid_classes lists for it.
C14_EmptyStoreValid ==
    (op.name = "check_valid" /\ IsEmptyStore(ext))
        => /\ exc = ""
           /\ ext.bases = {c[1] : c \in {d \in ClassSet :
                                           InSeq(d, get_valid_classes(ext))}}

(* ------------------------------- C15 ---------------------------------- *)
\* The input has the axis dim and its size along it is not 1.
NotSingular(input, dim) ==
    Len(input.shape) > dim /\ input.shape[dim + 1] # 1

\* C15: from_sequence raises when any of its inputs, the first or a later
\* one, has a size other than 1 along dim, and when dim is not in 0..4: a
\* call that returned had dim in 0..4 and inputs all singular along dim.
C15_EveryInputChecked ==
    (op.name = "from_sequence" /\ exc = "")
        => /\ op.dim \in 0 .. 4
           /\ \A i \in DOMAIN merge.seq : ~NotSingular(merge.seq[i], op.dim)

(* ------------------------------- C16 ---------------------------------- *)
\* The shape of the first input with 1s for the axes it lacks up to dim
\* and n along dim.
MergedShape(first_input, dim, n) ==
    [a \in 1 .. (IF Len(first_input.shape) > dim
                 THEN Len(first_input.shape) ELSE dim + 1) |->
        IF a = dim + 1 THEN n
        ELSE IF a <= Len(first_input.shape) THEN first_input.shape[a]
        ELSE 1]

\* C16: the store from_sequence returns has the shape of the first input,
\* padded with 1s up to dim, with the number of inputs along dim; and the
\* working result after n inputs have been consumed has n along dim.
C16_MergedShape ==
    (op.name = "from_sequence" /\ exc = "")
        => /\ ext.shape = MergedShape(merge.seq[1], op.dim, Len(merge.seq))
           /\ \A n \in 1 .. Len(merge.seq) :
                 /\ MergeState(merge.seq, op.dim, n).exc = ""
                 /\ MergeState(merge.seq, op.dim, n).e.shape
                       = MergedShape(merge.seq[1], op.dim, n)

\* Three stores of three axes have been merged along an axis they lack.
C16_Witness ==
    /\ op.name = "from_sequence" /\ exc = ""
    /\ Len(merge.seq) >= 3
    /\ Len(merge.seq[1].shape) <= op.dim
    /\ Len(ext.shape) = op.dim + 1

C17_WitnessSubset ==
    /\ op.name \in {"_simplify", "_change_class"} /\ exc = ""
    /\ ext # pre
    /\ Len(merge.seq) = 1

(* ------------------------------- C18 ---------------------------------- *)
\* C18: get_subset raises, and returns no store, when dim is not in 0..4
\* or idx is not a position along axis dim of the store.
C18_OutOfRangeRaises ==
    (/\ op.name = "get_subset"
     /\ \/ op.dim \notin 0 .. 4
        \/ /\ op.dim < Len(pre.shape)
           /\ op.idx \notin 0 .. (pre.shape[op.dim + 1] - 1))
        => exc # ""

(* ------------------------------- C19 ---------------------------------- *)
\* The positions of the extensions with the dcmmeta code that pass
\* check_valid.
ValidCandidates(extensions) ==
    {i \in DOMAIN extensions :
        /\ extensions[i].code = dcm_meta_ecode
        /\ check_valid_err(extensions[i].content) = ""}

\* C19: a NiftiWrapper made for a header with exactly one valid candidate
\* refers to it and leaves the extensions as they were; with more than
\* one, ValueError is raised; with none and make_empty false,
\* MissingExtensionError is raised and the extensions are as they were;
\* with none and make_empty true, one empty extension is appended and the
\* wrapper refers to it.
C19_WrapStep ==
    op'.name = "NiftiWrapper" =>
        /\ Cardinality(ValidCandidates(hdr.extensions)) = 1
              => /\ exc' = ""
                 /\ meta_ext' \in ValidCandidates(hdr.extensions)
                 /\ hdr' = hdr
        /\ Cardinality(ValidCandidates(hdr.extensions)) > 1
              => exc' = "ValueError"
        /\ (ValidCandidates(hdr.extensions) = {} /\ op'.idx = 0)
              => (exc' = "MissingExtensionError" /\ hdr' = hdr)
        /\ (ValidCandidates(hdr.extensions) = {} /\ op'.idx = 1)
              => /\ exc' = ""
                 /\ Len(hdr'.extensions) = Len(hdr.extensions) + 1
                 /\ SubSeq(hdr'.extensions, 1, Len(hdr.extensions))
                       = hdr.extensions
                 /\ meta_ext' = Len(hdr'.extensions)
                 /\ IsEmptyStore(hdr'.extensions[meta_ext'].content)

C19_WrapperConstruction == [][C19_WrapStep]_vars

(* ------------------------------- C20 ---------------------------------- *)
\* C20: when _simplify moves a key whose values are all equal to
\* (global, const), what it stores there is the one repeated value, not a
\* list; the key is gone from the class it was in; and True is returned.
C20_ConstantIsScalar ==
    (/\ op.name = "_simplify" /\ exc = ""
     /\ get_classification_err(pre, op.key) = ""
     /\ get_classification(pre, op.key) \notin {NoneClass, GlobalConst}
     /\ ext.meta[GlobalConst][op.key] # Missing)
        => /\ ret = TRUE
           /\ ext.meta[get_classification(pre, op.key)][op.key] = Missing
           /\ ~IsList(ext.meta[GlobalConst][op.key])
           /\ ext.meta[GlobalConst][op.key] = get_values(pre, op.key).l[1]

(* ------------------------------- C21 ---------------------------------- *)
\* The classes in which store e holds the key and store before did not.
MovedTo(before, e, key) ==
    {c \in ClassSet : e.meta[c][key] # Missing /\ before.meta[c][key] = Missing}

\* C21: when _simplify moves a key of a valid store to a class other than
\* (global, const), the list it stores there has as many entries as the
\* multiplicity of that class.
C21_MovedListLength ==
    (/\ op.name = "_simplify" /\ exc = "" /\ ret = TRUE
     /\ check_valid_err(pre) = "")
        => \A c \in MovedTo(pre, ext, op.key) \ {GlobalConst} :
              /\ IsList(ext.meta[c][op.key])
              /\ Len(ext.meta[c][op.key].l) = get_multiplicity(ext, c)
(* ------------------------------- C22 ---------------------------------- *)
\* C22: when _simplify is called on a valid store for a key held in a class
\* other than (global, const) and finds no class to move the key to, it
\* returns False, raises nothing and leaves the store as it was.
C22_NoMatchReturnsFalse ==
    (/\ op.name = "_simplify"
     /\ check_valid_err(pre) = ""
     /\ get_classification(pre, op.key) \notin {NoneClass, GlobalConst}
     /\ MovedTo(pre, ext, op.key) = {})
        => /\ exc = ""
           /\ ret = FALSE
           /\ ext = pre
(* ------------------------------- C23 ---------------------------------- *)
\* The lengths of the time and vector axes of a shape (1 without the axis).
TimeLen(shape) == IF Len(shape) > 3 THEN shape[4] ELSE 1

VectorLen(shape) == IF Len(shape) > 4 THEN shape[5] ELSE 1

\* The position, counted from 0, that the element at slice s, time point t
\* and vector component v has in a list of class c: slices vary fastest,
\* then time points, then vector components, and a class holds one value
\* per combination of the indices it varies over.
PositionIn(e, c, s, t, v) ==
    CASE c = GlobalSlices -> s + n_slices(e) * (t + TimeLen(e.shape) * v)
      [] c = VectorSlices -> s + n_slices(e) * t
      [] c = TimeSlices -> s
      [] c = TimeSamples -> t + TimeLen(e.shape) * v
      [] c = VectorSamples -> v
      [] OTHER -> 0

\* The value the key has at slice s, time point t and vector component v
\* in store e: a class of multiplicity one holds the value itself.
ValueAt(e, key, s, t, v) ==
    LET At(c, values) ==
            IF get_multiplicity(e, c) = 1 THEN values
            ELSE values.l[PositionIn(e, c, s, t, v) + 1]
    IN  At(get_classification(e, key), get_values(e, key))

\* The (slice, time, vector) indices of store e.
Indices(e) ==
    (0 .. (n_slices(e) - 1)) \X (0 .. (TimeLen(e.shape) - 1))
        \X (0 .. (VectorLen(e.shape) - 1))

\* A completed _change_class of a key of a valid store to another class.
Promoted ==
    /\ op.name = "_change_class" /\ exc = ""
    /\ check_valid_err(pre) = ""
    /\ get_classification(pre, op.key) \notin {NoneClass, op.cls}
    /\ get_classification(ext, op.key) = op.cls

\* C23: after _change_class the key has at every (slice, time, vector)
\* index the value it had there before.
C23_PromotionKeepsPositions ==
    Promoted =>
        \A i \in Indices(pre) :
            ValueAt(ext, op.key, i[1], i[2], i[3])
                = ValueAt(pre, op.key, i[1], i[2], i[3])
(* ------------------------------- C24 ---------------------------------- *)
\* For each vector component in order, the block of n_slices values that
\* time point idx has in the (global, slices) list vals of store e.
TimePointBlocks(e, vals, idx) ==
    [i \in 1 .. (n_slices(e) * VectorLen(e.shape)) |->
        vals[((i - 1) \div n_slices(e)) * n_slices(e) * TimeLen(e.shape)
             + idx * n_slices(e) + ((i - 1) % n_slices(e)) + 1]]

\* The class and values a key has once the list q is stored for it under
\* (global, slices) in an empty store of the subset's shape and simplified.
SubsetHolds(e, dim, key, q) ==
    LET Held(r) == <<get_classification(r.e, key), get_values(r.e, key)>>
    IN  Held(PutSimplify(make_empty(SubsetShape(e, dim), e.affine,
                                    e.slice_dim),
                         GlobalSlices, key, List(q)))

\* get_subset(3, idx) was called on a valid store with a time axis, with
\* idx a time point of it and the key held in (global, slices).
TimeSubsetOf(key) ==
    /\ op.name = "get_subset" /\ op.dim = 3
    /\ Len(pre.shape) > 3 /\ pre.slice_dim # NoDim
    /\ op.idx < pre.shape[4]
    /\ check_valid_err(pre) = ""
    /\ IsList(pre.meta[GlobalSlices][key])

\* C24: get_subset(3, idx) completes and gives a key of (global, slices)
\* the blocks of time point idx of every vector component, in order (the
\* single block of time point idx on a 4-axis store).
C24_TimeSubsetOfGlobalSlices ==
    \A key \in Keys :
        TimeSubsetOf(key) =>
            /\ exc = ""
            /\ <<get_classification(ext, key), get_values(ext, key)>>
                 = SubsetHolds(pre, 3, key,
                       TimePointBlocks(pre, pre.meta[GlobalSlices][key].l,
                                       op.idx))

\* The same for the stores of four axes only.
C24_FourAxes ==
    \A key \in Keys :
        (TimeSubsetOf(key) /\ Len(pre.shape) = 4) =>
            /\ exc = ""
            /\ <<get_classification(ext, key), get_values(ext, key)>>
                 = SubsetHolds(pre, 3, key,
                       TimePointBlocks(pre, pre.meta[GlobalSlices][key].l,
                                       op.idx))
(* ------------------------------- C25 ---------------------------------- *)
\* The last call merged valid stores along their slice axis, and every
\* input holds the key in (global, slices).
SliceMergeOf(key) ==
    /\ op.name = "from_sequence" /\ merge # NoMerge
    /\ merge.dim = merge.seq[1].slice_dim
    /\ MergeInputsValid
    /\ \A i \in DOMAIN merge.seq :
          IsList(merge.seq[i].meta[GlobalSlices][key])

\* The working result after n inputs holds the key in (global, slices)
\* with, for every volume, the values of inputs 0 .. n-1 for that volume
\* in input order.
BlocksInInputOrder(seq, key, r, n) ==
    /\ r.exc = ""
    /\ IsList(r.e.meta[GlobalSlices][key])
    /\ Len(r.e.meta[GlobalSlices][key].l)
          = n * Len(seq[1].meta[GlobalSlices][key].l)
    /\ \A vol \in 0 .. (Len(seq[1].meta[GlobalSlices][key].l) - 1) :
          \A i \in 0 .. (n - 1) :
             r.e.meta[GlobalSlices][key].l[vol * n + i + 1]
                = seq[i + 1].meta[GlobalSlices][key].l[vol + 1]

\* C25: merging along the slice axis a key that every input holds in
\* (global, slices) gives, after each input and before the final
\* simplification, a list in which every volume's block holds the inputs'
\* slices in input order.
C25_SliceMergeOrder ==
    \A key \in Keys :
        SliceMergeOf(key) =>
            \A n \in 1 .. Len(merge.seq) :
                BlocksInInputOrder(merge.seq, key,
                                   MergeState(merge.seq, merge.dim, n), n)

\* Two inputs of two volumes each, the key differing between the volumes
\* and between the inputs, were merged along the slice axis.
C25_Witness ==
    /\ SliceMergeOf(1)
    /\ Len(merge.seq) = 2
    /\ merge.seq[1].meta[GlobalSlices][1] = List(<<Scalar(1), Scalar(2)>>)
    /\ merge.seq[2].meta[GlobalSlices][1] = List(<<Scalar(2), Scalar(1)>>)
(* ------------------------------- C26 ---------------------------------- *)
\* The last call merged valid stores along the time or the vector axis, an
\* axis that is absent from the inputs or of length 1 in them; every input
\* holds the key in (global, const) and the values are not all the same.
\* The stores have a slice axis.
SampleMergeOf(key) ==
    /\ op.name = "from_sequence" /\ merge # NoMerge
    /\ merge.dim \in 3 .. 4
    /\ merge.seq[1].slice_dim # NoDim
    /\ Len(merge.seq[1].shape) > merge.dim
          => merge.seq[1].shape[merge.dim + 1] = 1
    /\ MergeInputsValid
    /\ \A i \in DOMAIN merge.seq :
          merge.seq[i].meta[GlobalConst][key] # Missing
    /\ \E i \in DOMAIN merge.seq :
          merge.seq[i].meta[GlobalConst][key]
             # merge.seq[1].meta[GlobalConst][key]

\* The samples class of the axis dim.
SamplesOf(dim) == IF dim = 3 THEN TimeSamples ELSE VectorSamples

\* C26: merging along the time or the vector axis a key that every input
\* holds in (global, const), with at least two different values, completes
\* and leaves the key in the samples class of the axis with the inputs'
\* values in input order.
C26_ConstBecomesSamples ==
    \A key \in Keys :
        SampleMergeOf(key) =>
            /\ exc = ""
            /\ get_classification(ext, key) = SamplesOf(merge.dim)
            /\ get_values(ext, key)
                  = List([i \in DOMAIN merge.seq |->
                             merge.seq[i].meta[GlobalConst][key]])
(* ------------------------------- C27 ---------------------------------- *)
\* The last call merged three-axis stores with a slice axis along axis 3;
\* every input holds the key in (global, const) with a value other than
\* None or not at all, and there are inputs of both kinds.
PartlyMissingMergeOf(key) ==
    /\ op.name = "from_sequence" /\ merge # NoMerge
    /\ merge.dim = 3
    /\ \A i \in DOMAIN merge.seq :
          /\ Len(merge.seq[i].shape) = 3
          /\ merge.seq[i].slice_dim # NoDim
          /\ check_valid_err(merge.seq[i]) = ""
          /\ \A c \in ClassSet \ {GlobalConst} :
                merge.seq[i].meta[c][key] = Missing
          /\ merge.seq[i].meta[GlobalConst][key] # PyNone
    /\ \E i \in DOMAIN merge.seq :
          merge.seq[i].meta[GlobalConst][key] # Missing
    /\ \E i \in DOMAIN merge.seq :
          merge.seq[i].meta[GlobalConst][key] = Missing

C27_WitnessLater ==
    /\ PartlyMissingMergeOf(1)
    /\ Len(merge.seq) = 3
    /\ merge.seq[1].meta[GlobalConst][1] = Scalar(1)
    /\ merge.seq[2].meta[GlobalConst][1] = Missing
    /\ merge.seq[3].meta[GlobalConst][1] = Scalar(2)
(* ------------------------------- C28 ---------------------------------- *)
\* The classes and None, the class of a key that is absent.
AllClasses == ClassSet \cup {NoneClass}

\* The classes the table lists for c.
Listed(c) == {_preserving_changes(c)[i] : i \in DOMAIN _preserving_changes(c)}

\* The classes reached from the classes of S in at most n steps of the
\* table.
RECURSIVE ReachedFrom(_, _)
ReachedFrom(S, n) ==
    IF n = 0 THEN S
    ELSE ReachedFrom(S \cup UNION {Listed(c) : c \in S}, n - 1)

\* The classes reached from c in one or more steps.
Above(c) == ReachedFrom(Listed(c), Cardinality(AllClasses))

\* The table is the edge set of a strict order with None and
\* (global, const) below and (global, slices) above every other class.
TableIsStrictOrder ==
    /\ \A c \in AllClasses : c \notin Listed(c)
    /\ \A c, d \in AllClasses : ~(d \in Listed(c) /\ c \in Listed(d))
    /\ \A c \in AllClasses : c \notin Above(c)
    /\ Above(NoneClass) = ClassSet
    /\ Above(GlobalConst) = ClassSet \ {GlobalConst}
    /\ \A c \in AllClasses \ {GlobalSlices} : GlobalSlices \in Listed(c)
    /\ Listed(GlobalSlices) = {}

\* _insert looks for best_dest when the class of the key in the result and
\* its class in the other store differ and neither lists the other.
NeedsBestDest(local_classes, other_classes) ==
    /\ local_classes # other_classes
    /\ other_classes \notin Listed(local_classes)
    /\ local_classes \notin Listed(other_classes)

\* C28: the promotion table is the edge set of a strict order, and for
\* every pair of classes that _insert has to reconcile through a third
\* class, best_dest is a class that both list.
C28_CommonTargetFound ==
    /\ TableIsStrictOrder
    /\ \A local_classes \in AllClasses, other_classes \in ClassSet :
          NeedsBestDest(local_classes, other_classes) =>
             /\ BestDest(ext, local_classes, other_classes)
                   \in Listed(local_classes) \cap Listed(other_classes)
             /\ BestDest(ext, local_classes, other_classes)[1] \in ext.bases

\* A merge has reconciled a key that the first input holds in
\* (time, samples) and the second in (time, slices): the key is in
\* (global, slices) after the second input has been inserted.
C28_Witness ==
    /\ op.name = "from_sequence" /\ exc = "" /\ merge # NoMerge
    /\ Len(merge.seq) = 2
    /\ get_classification(merge.seq[1], 1) = TimeSamples
    /\ get_classification(merge.seq[2], 1) = TimeSlices
    /\ NeedsBestDest(TimeSamples, TimeSlices)
    /\ MergeState(merge.seq, merge.dim, 2).e.meta[GlobalSlices][1] # Missing
(* ------------------------------- C29 ---------------------------------- *)
\* The classes _simplify can move a key of class c to.
SimplifyDests(c) ==
    IF c \in {NoneClass, GlobalConst} THEN {}
    ELSE {_const_tests(c)[i] : i \in DOMAIN _const_tests(c)}
         \cup {_repeat_tests(c)[i] : i \in DOMAIN _repeat_tests(c)}

\* Every destination the two tables of _simplify give for a class lists
\* that class in the promotion table.
TablesReversePromotions ==
    \A c \in ClassSet : \A d \in SimplifyDests(c) : c \in Listed(d)

\* C29: whenever _simplify moves a key of a valid store from class C to
\* class D, C is among the classes _preserving_changes lists for D.
C29_SimplifyReversesPromotion ==
    (/\ op.name = "_simplify" /\ exc = "" /\ ret = TRUE
     /\ check_valid_err(pre) = "")
        => \A d \in MovedTo(pre, ext, op.key) :
              /\ d \in SimplifyDests(get_classification(pre, op.key))
              /\ get_classification(pre, op.key) \in Listed(d)
(* ------------------------------- C30 ---------------------------------- *)
\* The place of a class in the order (global, slices) > (vector, slices) >
\* (time, slices), (time, samples) > (vector, samples) > (global, const) >
\* absent.
Rank(c) ==
    CASE c = GlobalSlices -> 5
      [] c = VectorSlices -> 4
      [] c \in {TimeSlices, TimeSamples} -> 3
      [] c = VectorSamples -> 2
      [] c = GlobalConst -> 1
      [] OTHER -> 0

\* The class store e holds the key in, read from the dictionaries (None
\* when no dictionary holds it).
HeldIn(e, key) ==
    IF \E c \in ClassSet : e.meta[c][key] # Missing
    THEN CHOOSE c \in ClassSet : e.meta[c][key] # Missing
    ELSE NoneClass

\* The number of values store e holds for the key.
ValueCount(e, key) ==
    LET Count(v) == IF v = Missing THEN 0
                    ELSE IF IsList(v) THEN Len(v.l) ELSE 1
    IN  IF HeldIn(e, key) = NoneClass THEN 0
        ELSE Count(e.meta[HeldIn(e, key)][key])

\* C30: calling _simplify on the same key again and again, every call
\* that returns True leaves the key in a class strictly lower in the order
\* and with no more values than before, and no more than five calls
\* return True.
C30_SimplifyDescends ==
    [][(op'.name = "_simplify" /\ ret' = TRUE)
          => /\ exc' = ""
             /\ Rank(HeldIn(ext', op'.key)) < Rank(HeldIn(ext, op'.key))
             /\ ValueCount(ext', op'.key) <= ValueCount(ext, op'.key)
             /\ calls' <= Rank(GlobalSlices)]_vars

\* A call has returned True and moved the key from (global, slices) to a
\* lower class with fewer values.
C30_Witness ==
    /\ op.name = "_simplify" /\ ret = TRUE /\ exc = ""
    /\ HeldIn(pre, op.key) = GlobalSlices
    /\ Rank(HeldIn(ext, op.key)) \in 2 .. 4
    /\ ValueCount(ext, op.key) < ValueCount(pre, op.key)

\* A second call has been made after a call that moved the key: the key is
\* in (global, const) with the list the first call stored there.
C30_WitnessRepeated ==
    /\ op.name = "_simplify" /\ calls = 2 /\ ret = FALSE /\ exc = ""
    /\ IsList(ext.meta[GlobalConst][op.key])
====
